---- MODULE Spec2Model ----
(***************************************************************************)
(* Model of the audio/caption core of the reel generator:                  *)
(*   - AudioService (services/audioService.ts): the live playback session  *)
(*     and the Web Audio nodes it creates, starts, stops and disconnects;   *)
(*   - calculateWordTimings (utils/textUtils, src/unnamed/part_001): the    *)
(*     fallback caption timing, computed in IEEE-754 binary64;              *)
(*   - getCaptionChunks and exportVideo (services/videoExportService.ts):   *)
(*     the caption chunks, the render loop, the recorder and the promise;   *)
(*   - the generation flow of the App component (App.tsx and part_004):     *)
(*     analysis, speech, transcription, images, playback and export mix.    *)
(***************************************************************************)
EXTENDS Integers, Naturals, Sequences, FiniteSets, TLC

VARIABLES
    \* ---- AudioService fields (audioService.ts:5-17) ----
    nodes,               \* the audio nodes that exist: id -> node record
    voiceNode,           \* id of the voice AudioBufferSourceNode, or Null
    musicNodes,          \* sequence of oscillator ids
    customMusicNode,     \* id of the custom background source, or Null
    musicGainNode,       \* id of the bed gain stage, or Null
    voiceGainNode,       \* id of the voice gain stage, or Null
    pulseGainNode,       \* id of the pulse gain stage, or Null
    activeVoiceBuffer,
    activeVoiceVolume,
    activeOnEnded,
    activeRate,
    \* ---- environment of the AudioService ----
    timers,              \* number of pending setTimeout(stopMusic, 500) callbacks
    uncaught,            \* an exception escaped an AudioService method
    \* ---- observation ----
    lastCall,            \* the last request that took effect: "new" | "playVoice" |
                         \* "playAtmosphere" | "playCustomBackground" | "seek" | "stopAll"
    swallowed,           \* a teardown call threw inside a try/catch during the last step
    invoked,             \* completion callback invoked during the last step, or "null"
    \* ---- calculateWordTimings ----
    caption,             \* the script: a sequence of characters
    audioDuration,       \* the duration: a binary64 value
    timings,             \* the result: sequence of WordTiming
    phase,               \* "idle" | "input" | "done"
    \* ---- exportVideo (videoExportService.ts:4-245) ----
    export,              \* one call of exportVideo: its arguments, its locals and
                         \* the objects it created
    \* ---- App component (App.tsx:15-143) ----
    app,                 \* the component's state and the generation in progress
    \* ---- offline mix against live preview (audioService.ts:293-372) ----
    mixer,               \* the settings of the page, the offline graph built last
    \* ---- decodeAudio and bufferToWav (audioService.ts:35-56, 388-431) ----
    codec,               \* one call: its argument and what it returned or threw
    \* ---- ReelPlayer component (part_003:19-152) ----
    player,              \* props, state, refs and the running animation loop
    \* ---- withRetry (geminiService.ts:8-39) ----
    retry                \* one call of withRetry: its loop variables and outcome

audioVars == <<nodes, voiceNode, musicNodes, customMusicNode, musicGainNode,
               voiceGainNode, pulseGainNode, activeVoiceBuffer, activeVoiceVolume,
               activeOnEnded, activeRate, timers, uncaught,
               lastCall, swallowed, invoked>>
timingVars == <<caption, audioDuration, timings, phase>>
otherVars == <<export, app>>
laterVars == <<mixer, codec, player, retry>>
vars == <<audioVars, timingVars, otherVars, laterVars>>

\* none of the components of the later sections has been brought up
LaterIdle ==
    /\ mixer = [pc |-> "idle"]
    /\ codec = [pc |-> "idle"]
    /\ player = [pc |-> "idle"]
    /\ retry = [pc |-> "idle"]

----------------------------------------------------------------------------
\* Bounds of the model
MaxBeds == 2          \* background beds that can exist at once
MaxTimers == 1        \* pending stopAll timers

Null == 0             \* a null node reference
Dest == 0 - 1         \* ctx.destination

\* a play request passes a decoded voice buffer and a completion callback made for it
Requests == {[buffer |-> "b1", cb |-> "cb1"], [buffer |-> "b2", cb |-> "cb2"]}
CustomBuffers == {"bg"}          \* user-supplied background tracks
Volumes == {3000, 7000}          \* voice gain in units of 1/10000
MusicVolumes == {5000}           \* bed gain in units of 1/10000
Rates == {10, 15}                \* playback rate in tenths
Offsets == {0, 1}                \* seek / start offsets in seconds
Platforms == {"standard", "legacy"}
Tempos == {10}                   \* tempo in tenths
Durations == {5}                 \* atmosphere duration in seconds
MoodInputs == {"Tense", "Bogus"} \* one enum member, one unrecognised tag

----------------------------------------------------------------------------
\* getFrequenciesAndType (audioService.ts:105-141).  Frequencies in 1/100 Hz,
\* lfoFreq in 1/1000 Hz, lfoDepth in 1/10000, detuneAmount in cents.
Profile(fr, ty, det, lf, ld) ==
    [frequencies |-> fr, type |-> ty, detuneAmount |-> det, lfoFreq |-> lf, lfoDepth |-> ld]

\* getFrequenciesAndType without the default branch of the switch: frequencies
\* keeps its initial value []
getFrequenciesAndType_NoDefault(mood) ==
    CASE mood = "Neutral"          -> Profile(<<11000, 16481, 19600, 22000>>, "sine", 5, 300, 1000)
      [] mood = "Happy"            -> Profile(<<26163, 32963, 39200, 52325>>, "triangle", 8, 2000, 1500)
      [] mood = "Sad"              -> Profile(<<14683, 17461, 22000, 29366>>, "sine", 5, 150, 1000)
      [] mood = "Tense"            -> Profile(<<11000, 11654, 15556, 16481>>, "sawtooth", 4, 500, 2000)
      [] mood = "Excited"          -> Profile(<<29366, 36999, 44000, 58733>>, "triangle", 10, 3000, 1000)
      [] mood = "Mysterious"       -> Profile(<<13859, 19600, 24694, 27718>>, "sine", 15, 250, 1500)
      [] mood = "Professional"     -> Profile(<<19600, 24694, 29366, 39200>>, "sine", 5, 500, 500)
      [] mood = "ViralPhonk"       -> Profile(<<5500, 11000, 16481, 22000>>, "sawtooth", 15, 4000, 3500)
      [] mood = "LofiChill"        -> Profile(<<13081, 15556, 19600, 24694>>, "sine", 2, 500, 1000)
      [] mood = "BollywoodRomance" -> Profile(<<26163, 32963, 39200, 49388>>, "triangle", 12, 200, 1500)
      [] mood = "DesiBeats"        -> Profile(<<14683, 22000, 29366, 44000>>, "square", 5, 2000, 2500)
      [] mood = "EpicCinematic"    -> Profile(<<6541, 9800, 13081, 19600>>, "sawtooth", 8, 100, 3000)
      [] OTHER                     -> Profile(<<>>, "sine", 5, 200, 500)

getFrequenciesAndType(mood) ==
    CASE mood = "Neutral"          -> Profile(<<11000, 16481, 19600, 22000>>, "sine", 5, 300, 1000)
      [] mood = "Happy"            -> Profile(<<26163, 32963, 39200, 52325>>, "triangle", 8, 2000, 1500)
      [] mood = "Sad"              -> Profile(<<14683, 17461, 22000, 29366>>, "sine", 5, 150, 1000)
      [] mood = "Tense"            -> Profile(<<11000, 11654, 15556, 16481>>, "sawtooth", 4, 500, 2000)
      [] mood = "Excited"          -> Profile(<<29366, 36999, 44000, 58733>>, "triangle", 10, 3000, 1000)
      [] mood = "Mysterious"       -> Profile(<<13859, 19600, 24694, 27718>>, "sine", 15, 250, 1500)
      [] mood = "Professional"     -> Profile(<<19600, 24694, 29366, 39200>>, "sine", 5, 500, 500)
      [] mood = "ViralPhonk"       -> Profile(<<5500, 11000, 16481, 22000>>, "sawtooth", 15, 4000, 3500)
      [] mood = "LofiChill"        -> Profile(<<13081, 15556, 19600, 24694>>, "sine", 2, 500, 1000)
      [] mood = "BollywoodRomance" -> Profile(<<26163, 32963, 39200, 49388>>, "triangle", 12, 200, 1500)
      [] mood = "DesiBeats"        -> Profile(<<14683, 22000, 29366, 44000>>, "square", 5, 2000, 2500)
      [] mood = "EpicCinematic"    -> Profile(<<6541, 9800, 13081, 19600>>, "sawtooth", 8, 100, 3000)
      [] OTHER                     -> Profile(<<22000, 27700, 33000>>, "sine", 5, 200, 500)

----------------------------------------------------------------------------
\* Web Audio nodes as the service sees them.
\*   kind    "source" (AudioBufferSourceNode) | "osc" (OscillatorNode) | "gain"
\*   role    which statement of the service created it
\*   out/via the node (or Dest) it is connected to, and the input it feeds
\*           ("audio", or the AudioParam "gain" / "detune")
\*   ended   stop() was called or the node finished by itself (natural)
\*   evt     state of its 'ended' event: "none" | "pending" | "done"
\*   grp     the bed it belongs to (id of that bed's gain stage)
Node(kind, role) ==
    [kind |-> kind, role |-> role, started |-> FALSE, ended |-> FALSE,
     natural |-> FALSE, out |-> Null, via |-> "audio", buffer |-> "null",
     loop |-> FALSE, rate |-> 0, offset |-> 0, gain |-> 0, freq |-> 0,
     wave |-> "none", onended |-> "null", evt |-> "none", fired |-> 0,
     grp |-> 0, stopAt |-> 0]

\* The service's state as one record, so that methods compose.
Cur ==
    [nodes |-> nodes, voiceNode |-> voiceNode, musicNodes |-> musicNodes,
     customMusicNode |-> customMusicNode, musicGainNode |-> musicGainNode,
     voiceGainNode |-> voiceGainNode, pulseGainNode |-> pulseGainNode,
     activeVoiceBuffer |-> activeVoiceBuffer, activeVoiceVolume |-> activeVoiceVolume,
     activeOnEnded |-> activeOnEnded, activeRate |-> activeRate,
     timers |-> timers, platform |-> "standard",
     exc |-> FALSE, swallowed |-> FALSE, invoked |-> "null", alloc |-> 0]

\* ctx.createGain / createBufferSource / createOscillator.  Node identities
\* are opaque; the model draws them per kind of node: voice sources from
\* 101.., voice gain stages from 201.., and the nodes of a bed from a block
\* 301.., 401.., ... in the order the code creates them.
VoiceBase == 100
VoiceGainBase == 200
BedBase == 300
Block == 100

InBlock(n, base) == n > base /\ n < base + Block

FreshIn(ns, base) ==
    base + 1 + Cardinality({n \in DOMAIN ns : InBlock(n, base)})

Create(ns, id, rec) ==
    [i \in DOMAIN ns \cup {id} |-> IF i = id THEN rec ELSE ns[i]]

\* The value of an expression, computed once and named: {e : x \in {v}}
\* evaluates v and names its value x in e.
Only(S) == CHOOSE x \in S : TRUE

\* AudioScheduledSourceNode.stop(): throws when the node was never started,
\* and on a legacy (webkit-prefixed) platform also when it already finished;
\* otherwise the node ends, and its 'ended' event is queued if a listener is
\* attached.
StopThrows(s, n) ==
    \/ ~s.nodes[n].started
    \/ s.nodes[n].ended /\ s.platform = "legacy"

NodeStop(st, n) ==
    Only({ (IF StopThrows(s, n) THEN [s EXCEPT !.exc = TRUE]
            ELSE IF s.nodes[n].ended THEN s
            ELSE [s EXCEPT !.nodes[n].ended = TRUE,
                           !.nodes[n].evt = IF s.nodes[n].onended # "null"
                                            THEN "pending" ELSE @])
           : s \in {st} })

\* AudioNode.disconnect(): removes every outgoing connection; never throws.
NodeDisconnect(s, n) == [s EXCEPT !.nodes[n].out = Null]

\* (mutant) the same two calls without the try/catch
TryStopDisconnect_NoCatch(st, n) ==
    Only({ (IF s.exc THEN s ELSE NodeDisconnect(s, n)) : s \in {NodeStop(st, n)} })

\* try { n.stop(); n.disconnect(); } catch (e) {}
TryStopDisconnect(st, n) ==
    Only({ [(IF s.exc THEN s ELSE NodeDisconnect(s, n))
              EXCEPT !.exc = FALSE, !.swallowed = @ \/ s.exc]
           : s \in {NodeStop(st, n)} })

----------------------------------------------------------------------------
\* The platform reclaims a node once the service holds no reference to it,
\* it is not sounding, no 'ended' event of it is queued, and nothing that is
\* kept feeds it.
Range(f) == {f[i] : i \in DOMAIN f}

Refs(s) ==
    ({s.voiceNode, s.customMusicNode, s.musicGainNode, s.voiceGainNode, s.pulseGainNode}
       \cup Range(s.musicNodes)) \ {Null}

Active(ns, n) == ns[n].kind # "gain" /\ ns[n].started /\ ~ns[n].ended

Pending(ns, n) == ns[n].evt = "pending" /\ ns[n].onended # "null"

Roots(s) ==
    Refs(s) \cup {n \in DOMAIN s.nodes : Active(s.nodes, n) \/ Pending(s.nodes, n)}

RECURSIVE Downstream(_, _)
Downstream(ns, S) ==
    Only({ (IF T = S THEN T ELSE Downstream(ns, T))
           : T \in {(S \cup {ns[n].out : n \in S}) \ {Null, Dest}} })

Sweep(st) ==
    Only({ [s EXCEPT !.nodes = [n \in Downstream(s.nodes, Roots(s)) |-> s.nodes[n]]]
           : s \in {st} })

\* Reclaimed identities are reused.  A new bed takes the first block in
\* which no node is left; the voice nodes that are kept are renumbered within
\* their kind, in order, when a method returns.
FreeBlocks(ns) ==
    {k \in 0..(MaxBeds - 1) : \A n \in DOMAIN ns : ~InBlock(n, BedBase + k * Block)}

FirstFree(ns) == CHOOSE i \in FreeBlocks(ns) : \A j \in FreeBlocks(ns) : i <= j

NewBed(st) ==
    Only({ [r EXCEPT !.alloc = BedBase + FirstFree(r.nodes) * Block + 1]
           : r \in {Sweep(st)} })

At(st, base) ==
    Only({ [s EXCEPT !.alloc = FreshIn(s.nodes, base)] : s \in {st} })

IsVoiceId(n) == n > VoiceBase /\ n < BedBase

Ren(ns, n) ==
    IF IsVoiceId(n)
    THEN LET b == (n \div Block) * Block
         IN  b + Cardinality({k \in DOMAIN ns : InBlock(k, b) /\ k <= n})
    ELSE n

Collect(st) ==
    Only({ [s EXCEPT
              !.nodes = [m \in {Ren(s.nodes, n) : n \in DOMAIN s.nodes} |->
                           IF IsVoiceId(m)
                           THEN LET o == CHOOSE n \in DOMAIN s.nodes : Ren(s.nodes, n) = m
                                IN  [s.nodes[o] EXCEPT !.out = Ren(s.nodes, @)]
                           ELSE s.nodes[m]],
              !.voiceNode = Ren(s.nodes, @),
              !.voiceGainNode = Ren(s.nodes, @),
              !.alloc = 0]
           : s \in {Sweep(st)} })

----------------------------------------------------------------------------
\* AudioService methods, as functions from the service state to the service
\* state.  s.exc is an exception in flight: the statements after the one
\* that threw are skipped until a catch.  A node's connect and start calls
\* are folded into the record it is created with.

\* s.alloc is the identity the next node created takes.
Add(st, rec) ==
    Only({ [s EXCEPT !.nodes = Create(s.nodes, s.alloc, rec), !.alloc = @ + 1]
           : s \in {st} })

\* stopMusic, the forEach over musicNodes (audioService.ts:65-67)
RECURSIVE StopEach(_, _, _)
StopEach(st, seq, i) ==
    Only({ (IF i > Len(seq) \/ s.exc THEN s
            ELSE StopEach(TryStopDisconnect(s, seq[i]), seq, i + 1))
           : s \in {st} })

\* audioService.ts:65-68
StopOscillators(st) ==
    Only({ (IF r.exc THEN r ELSE [r EXCEPT !.musicNodes = <<>>])
           : r \in {Only({ StopEach(s, s.musicNodes, 1) : s \in {st} })} })

\* audioService.ts:70-76
StopCustom(st) ==
    Only({ (IF s.exc \/ s.customMusicNode = Null THEN s
            ELSE [TryStopDisconnect(s, s.customMusicNode) EXCEPT !.customMusicNode = Null])
           : s \in {st} })

\* audioService.ts:78-81
DropMusicGain(st) ==
    Only({ (IF s.exc \/ s.musicGainNode = Null THEN s
            ELSE [NodeDisconnect(s, s.musicGainNode) EXCEPT !.musicGainNode = Null])
           : s \in {st} })

\* audioService.ts:83-86
DropPulseGain(st) ==
    Only({ (IF s.exc \/ s.pulseGainNode = Null THEN s
            ELSE [NodeDisconnect(s, s.pulseGainNode) EXCEPT !.pulseGainNode = Null])
           : s \in {st} })

\* stopMusic (audioService.ts:64-87)
stopMusic(st) == DropPulseGain(DropMusicGain(StopCustom(StopOscillators(st))))

\* playCustomBackground, the gain stage (audioService.ts:93-95)
CustomGain(st, volume) ==
    Only({ [Add(s, [Node("gain", "musicGain") EXCEPT
                      !.gain = volume, !.out = Dest, !.grp = s.alloc])
              EXCEPT !.musicGainNode = s.alloc]
           : s \in {st} })

\* playCustomBackground, the looping source (audioService.ts:97-101)
CustomSource(st, buffer) ==
    Only({ [Add(s, [Node("source", "custom") EXCEPT
                      !.buffer = buffer, !.loop = TRUE, !.out = s.musicGainNode,
                      !.started = TRUE, !.rate = 10, !.grp = s.musicGainNode])
              EXCEPT !.customMusicNode = s.alloc]
           : s \in {st} })

\* playCustomBackground after its stopMusic call (audioService.ts:91-101)
PlayCustomFrom(st, buffer, volume) ==
    Only({ (IF s.exc THEN s ELSE CustomSource(CustomGain(NewBed(s), volume), buffer))
           : s \in {st} })

\* (mutant) the custom bed is started without stopping the previous bed
playCustomBackground_NoStop(s, buffer, volume) == PlayCustomFrom(s, buffer, volume)

\* playCustomBackground (audioService.ts:89-102)
playCustomBackground(s, buffer, volume) == PlayCustomFrom(stopMusic(s), buffer, volume)

\* playAtmosphere, the pulse gain stage (audioService.ts:149-151)
PulseGain(st) ==
    Only({ [Add(s, [Node("gain", "pulseGain") EXCEPT !.gain = 10000, !.out = Dest])
              EXCEPT !.pulseGainNode = s.alloc]
           : s \in {st} })

\* playAtmosphere, the bed gain stage (audioService.ts:153-156)
MusicGain(st, volume) ==
    Only({ [Add(s, [Node("gain", "musicGain") EXCEPT
                      !.gain = volume, !.out = s.pulseGainNode, !.grp = s.alloc])
              EXCEPT !.musicGainNode = s.alloc, !.nodes[s.pulseGainNode].grp = s.alloc]
           : s \in {st} })

\* playAtmosphere, the tempo-synced LFO and its gain (audioService.ts:162-173)
Lfo(st, p, tempo, stopAt) ==
    Only({ [Add(Add(s, [Node("osc", "lfo") EXCEPT
                          !.wave = "sine", !.freq = (p.lfoFreq * tempo) \div 10,
                          !.out = s.alloc + 1, !.started = TRUE, !.stopAt = stopAt,
                          !.grp = s.musicGainNode]),
                [Node("gain", "lfoGain") EXCEPT
                   !.gain = p.lfoDepth, !.out = s.pulseGainNode, !.via = "gain",
                   !.grp = s.musicGainNode])
              EXCEPT !.musicNodes = Append(@, s.alloc)]
           : s \in {st} })

\* playAtmosphere, the body of frequencies.forEach (audioService.ts:177-206):
\* osc, oscDetuneLFO, oscDetuneGain and oscGain take s.alloc .. s.alloc + 3
Partial(st, p, i, tempo, stopAt) ==
    Only({ [Add(Add(Add(Add(s,
                [Node("osc", "osc") EXCEPT
                   !.wave = p.type, !.freq = p.frequencies[i], !.out = s.alloc + 3,
                   !.started = TRUE, !.stopAt = stopAt, !.grp = s.musicGainNode]),
                [Node("osc", "detuneLFO") EXCEPT
                   !.wave = "sine", !.freq = 20 * i * tempo, !.out = s.alloc + 2,
                   !.started = TRUE, !.stopAt = stopAt, !.grp = s.musicGainNode]),
                [Node("gain", "detuneGain") EXCEPT
                   !.gain = p.detuneAmount * 2, !.out = s.alloc, !.via = "detune",
                   !.grp = s.musicGainNode]),
                [Node("gain", "oscGain") EXCEPT
                   !.gain = 1500 \div Len(p.frequencies), !.out = s.musicGainNode,
                   !.grp = s.musicGainNode])
              EXCEPT !.musicNodes = @ \o <<s.alloc + 1, s.alloc>>]
           : s \in {st} })

\* playAtmosphere, frequencies.forEach (audioService.ts:176-207)
RECURSIVE AddPartials(_, _, _, _, _)
AddPartials(st, p, i, tempo, stopAt) ==
    IF i > Len(p.frequencies) THEN st
    ELSE AddPartials(Partial(st, p, i, tempo, stopAt), p, i + 1, tempo, stopAt)

\* playAtmosphere (audioService.ts:143-208); musicDuration is duration + 3
playAtmosphere(st, mood, duration, volume, tempo) ==
    Only({ (IF s.exc THEN s
            ELSE AddPartials(Lfo(MusicGain(PulseGain(NewBed(s)), volume),
                                 getFrequenciesAndType(mood), tempo, duration + 3 + 1),
                             getFrequenciesAndType(mood), 1, tempo, duration + 3 + 1))
           : s \in {stopMusic(st)} })

\* setVoiceSpeed (audioService.ts:210-215)
setVoiceSpeed(st, rate) ==
    Only({ (IF s.voiceNode # Null
            THEN [s EXCEPT !.activeRate = rate, !.nodes[s.voiceNode].rate = rate]
            ELSE [s EXCEPT !.activeRate = rate])
           : s \in {st} })

\* (mutant) the listener is left attached when the voice node is stopped
stopVoiceNode_KeepListener(st) ==
    Only({ (IF s.voiceNode = Null THEN s
            ELSE [TryStopDisconnect(s, s.voiceNode) EXCEPT !.voiceNode = Null])
           : s \in {st} })

\* stopVoiceNode (audioService.ts:243-252)
stopVoiceNode(st) ==
    Only({ (IF s.voiceNode = Null THEN s
            ELSE [TryStopDisconnect([s EXCEPT !.nodes[s.voiceNode].onended = "null"],
                                    s.voiceNode)
                    EXCEPT !.voiceNode = Null])
           : s \in {st} })

\* playVoice, the gain stage (audioService.ts:225-227)
VoiceGain(st, volume) ==
    Only({ [Add(s, [Node("gain", "voiceGain") EXCEPT !.gain = volume, !.out = Dest])
              EXCEPT !.voiceGainNode = s.alloc]
           : s \in {At(st, VoiceGainBase)} })

\* playVoice, the buffer source, its listener and its start (audioService.ts:229-240)
VoiceSource(st, buffer, onEnded, startTimeOffset) ==
    Only({ [Add(s, [Node("source", "voice") EXCEPT
                      !.buffer = buffer, !.rate = s.activeRate, !.out = s.voiceGainNode,
                      !.onended = onEnded, !.started = TRUE,
                      !.offset = startTimeOffset])
              EXCEPT !.voiceNode = s.alloc]
           : s \in {At(st, VoiceBase)} })

\* playVoice after its stopVoiceNode call (audioService.ts:221-240)
PlayVoiceFrom(st, buffer, volume, onEnded, startTimeOffset) ==
    Only({ (IF s.exc THEN s
            ELSE VoiceSource(VoiceGain([s EXCEPT !.activeVoiceBuffer = buffer,
                                                 !.activeVoiceVolume = volume,
                                                 !.activeOnEnded = onEnded],
                                       volume),
                             buffer, onEnded, startTimeOffset))
           : s \in {st} })

\* (mutant) the new voice is started without stopping the current one
playVoice_NoStop(s, buffer, volume, onEnded, startTimeOffset) ==
    PlayVoiceFrom(s, buffer, volume, onEnded, startTimeOffset)

\* playVoice (audioService.ts:217-241)
playVoice(s, buffer, volume, onEnded, startTimeOffset) ==
    PlayVoiceFrom(stopVoiceNode(s), buffer, volume, onEnded, startTimeOffset)

\* (mutant) the bed is torn down at once, without the fade and the delay
stopAll_Immediate(st) ==
    Only({ (IF s.exc THEN s ELSE stopMusic(s)) : s \in {stopVoiceNode(st)} })

\* stopAll (audioService.ts:254-269)
stopAll(st) ==
    Only({ (IF s.exc THEN s
            ELSE IF s.musicGainNode # Null
                 THEN [s EXCEPT !.nodes[s.musicGainNode].gain = 0, !.timers = @ + 1]
                 ELSE stopMusic(s))
           : s \in {stopVoiceNode(st)} })

\* seek after its guard (audioService.ts:273-274)
Restart(st, time) ==
    Only({ (IF s.exc THEN s
            ELSE playVoice(s, s.activeVoiceBuffer, s.activeVoiceVolume, s.activeOnEnded, time))
           : s \in {stopVoiceNode(st)} })

\* seek (audioService.ts:271-275)
seek(st, time) ==
    Only({ (IF s.activeVoiceBuffer = "null" \/ s.activeOnEnded = "null" THEN s
            ELSE Restart(s, time))
           : s \in {st} })

\* setVolumes, the voice gain (audioService.ts:283-285)
SetVoiceGain(st, voiceVol) ==
    Only({ (IF s.voiceGainNode # Null
            THEN [s EXCEPT !.nodes[s.voiceGainNode].gain = voiceVol] ELSE s)
           : s \in {st} })

\* setVolumes, the bed gain (audioService.ts:286-288)
SetMusicGain(st, musicVol) ==
    Only({ (IF s.musicGainNode # Null
            THEN [s EXCEPT !.nodes[s.musicGainNode].gain = musicVol] ELSE s)
           : s \in {st} })

\* (mutant) the voice volume is applied to the gain stage but not remembered
setVolumes_NoRemember(s, voiceVol, musicVol) ==
    SetMusicGain(SetVoiceGain(s, voiceVol), musicVol)

\* setVolumes (audioService.ts:277-289)
setVolumes(s, voiceVol, musicVol) ==
    SetMusicGain(SetVoiceGain([s EXCEPT !.activeVoiceVolume = voiceVol], voiceVol), musicVol)

\* voiceNode.onended = () => { if (this.voiceNode) onEnded() } (audioService.ts:234-238),
\* run when the platform dispatches the 'ended' event of node n.
onendedHandler(st, n) ==
    Only({ (IF s.nodes[n].onended # "null" /\ s.voiceNode # Null
            THEN [s EXCEPT !.nodes[n].evt = "done",
                           !.invoked = s.nodes[n].onended, !.nodes[n].fired = @ + 1]
            ELSE [s EXCEPT !.nodes[n].evt = "done"])
           : s \in {st} })

----------------------------------------------------------------------------
\* The platform the call runs on.  Platforms differ only in what stop() does
\* to a source that already finished, so the choice is open only when the
\* service holds such a node.
On(p) == [Cur EXCEPT !.platform = p]

PlatformsHere ==
    IF \E n \in Refs(Cur) : nodes[n].kind # "gain" /\ nodes[n].ended
    THEN Platforms ELSE {"standard"}

\* The audio fields after an AudioService call made by a handler
Assign(r, call) ==
    \E s \in {Collect(r)} :
        /\ nodes' = s.nodes
        /\ voiceNode' = s.voiceNode
        /\ musicNodes' = s.musicNodes
        /\ customMusicNode' = s.customMusicNode
        /\ musicGainNode' = s.musicGainNode
        /\ voiceGainNode' = s.voiceGainNode
        /\ pulseGainNode' = s.pulseGainNode
        /\ activeVoiceBuffer' = s.activeVoiceBuffer
        /\ activeVoiceVolume' = s.activeVoiceVolume
        /\ activeOnEnded' = s.activeOnEnded
        /\ activeRate' = s.activeRate
        /\ timers' = s.timers
        /\ uncaught' = (uncaught \/ s.exc)
        /\ lastCall' = call
        /\ swallowed' = s.swallowed
        /\ invoked' = s.invoked

\* The state after a method returned (or threw).
Commit(r, call) ==
    /\ Assign(r, call)
    /\ UNCHANGED <<timingVars, otherVars, laterVars>>

----------------------------------------------------------------------------
\* Calls of the AudioService's public methods

\* a block of identities is left for a new bed once the current one is torn down
HasBedRoom == \E s \in {Sweep(stopMusic(Cur))} : FreeBlocks(s.nodes) # {}

PlayVoice ==
    \E q \in Requests, v \in Volumes, off \in Offsets, p \in PlatformsHere :
        Commit(playVoice(On(p), q.buffer, v, q.cb, off), "playVoice")

PlayAtmosphere ==
    \E m \in MoodInputs, d \in Durations, v \in MusicVolumes, t \in Tempos,
       p \in PlatformsHere :
        /\ HasBedRoom
        /\ Commit(playAtmosphere(On(p), m, d, v, t), "playAtmosphere")

PlayCustomBackground ==
    \E b \in CustomBuffers, v \in MusicVolumes, p \in PlatformsHere :
        /\ HasBedRoom
        /\ Commit(playCustomBackground(On(p), b, v), "playCustomBackground")

SeekApplies == activeVoiceBuffer # "null" /\ activeOnEnded # "null"

Seek ==
    \E t \in Offsets, p \in PlatformsHere :
        Commit(seek(On(p), t), IF SeekApplies THEN "seek" ELSE lastCall)

SetVolumes ==
    \E v \in Volumes, m \in MusicVolumes :
        Commit(setVolumes(Cur, v, m), lastCall)

SetVoiceSpeed ==
    \E r \in Rates :
        Commit(setVoiceSpeed(Cur, r), lastCall)

StopAll ==
    \E p \in PlatformsHere :
        /\ musicGainNode # Null => timers < MaxTimers
        /\ Commit(stopAll(On(p)), "stopAll")

\* ---- the environment ----

\* setTimeout(() => { this.stopMusic(); }, 500) of stopAll fires (audioService.ts:263-265)
TimerFires ==
    \E p \in PlatformsHere :
        /\ timers > 0
        /\ Commit([stopMusic(On(p)) EXCEPT !.timers = @ - 1], lastCall)

\* A buffer source that does not loop plays to the end of its buffer.
VoiceEnds ==
    \E n \in DOMAIN nodes :
        /\ nodes[n].kind = "source" /\ ~nodes[n].loop /\ Active(nodes, n)
        /\ Commit([Cur EXCEPT !.nodes[n].ended = TRUE, !.nodes[n].natural = TRUE,
                              !.nodes[n].evt = IF nodes[n].onended # "null"
                                               THEN "pending" ELSE @],
                  lastCall)

\* The oscillators of a bed reach their scheduled stop time
\* (osc.stop(now + musicDuration + 1), audioService.ts:172,190,205).
BedExpires ==
    \E g \in {nodes[n].grp : n \in {m \in DOMAIN nodes : nodes[m].kind = "osc" /\ Active(nodes, m)}} :
        Commit([Cur EXCEPT !.nodes = [n \in DOMAIN nodes |->
                    IF nodes[n].kind = "osc" /\ nodes[n].grp = g /\ Active(nodes, n)
                    THEN [nodes[n] EXCEPT !.ended = TRUE, !.natural = TRUE]
                    ELSE nodes[n]]],
               lastCall)

\* The platform dispatches a queued 'ended' event to its listener.
DispatchEnded ==
    \E n \in DOMAIN nodes :
        /\ Pending(nodes, n)
        /\ Commit(onendedHandler(Cur, n), lastCall)

\* no export was requested and the App component is not mounted
OthersIdle ==
    /\ export = [pc |-> "idle"]
    /\ app = [pc |-> "idle"]
    /\ LaterIdle

TimingIdle ==
    /\ caption = <<>>
    /\ audioDuration = [neg |-> FALSE, m |-> <<0, 0, 0>>, e |-> 0]
    /\ timings = <<>>
    /\ phase = "idle"

\* The state after `new AudioService()` (audioService.ts:5-23)
AudioInit ==
    /\ nodes = [n \in {} |-> Node("gain", "none")]
    /\ voiceNode = Null
    /\ musicNodes = <<>>
    /\ customMusicNode = Null
    /\ musicGainNode = Null
    /\ voiceGainNode = Null
    /\ pulseGainNode = Null
    /\ activeVoiceBuffer = "null"
    /\ activeVoiceVolume = 10000
    /\ activeOnEnded = "null"
    /\ activeRate = 10
    /\ timers = 0
    /\ uncaught = FALSE
    /\ lastCall = "new"
    /\ swallowed = FALSE
    /\ invoked = "null"

Init == AudioInit /\ TimingIdle /\ OthersIdle

Next ==
    \/ PlayVoice
    \/ PlayAtmosphere
    \/ PlayCustomBackground
    \/ Seek
    \/ SetVolumes
    \/ SetVoiceSpeed
    \/ StopAll
    \/ TimerFires
    \/ VoiceEnds
    \/ BedExpires
    \/ DispatchEnded

Spec == Init /\ [][Next]_vars

----------------------------------------------------------------------------
\* Vocabulary of the claims about the playback session

IsBedId(n) == n > BedBase

ActiveVoices(ns) == {n \in DOMAIN ns : ns[n].role = "voice" /\ Active(ns, n)}
ActiveOscs(ns) == {n \in DOMAIN ns : ns[n].kind = "osc" /\ Active(ns, n)}
ActiveCustoms(ns) == {n \in DOMAIN ns : ns[n].role = "custom" /\ Active(ns, n)}
\* the beds that sound: one per bed gain stage that an active source belongs to
ActiveBeds(ns) == {ns[n].grp : n \in ActiveOscs(ns) \cup ActiveCustoms(ns)}

\* audio from node n arrives at ctx.destination
RECURSIVE ReachesOutput(_, _)
ReachesOutput(ns, n) ==
    IF n = Dest THEN TRUE
    ELSE IF n \notin DOMAIN ns THEN FALSE
    ELSE ns[n].via = "audio" /\ ReachesOutput(ns, ns[n].out)

VoicePlaying == voiceNode # Null /\ Active(nodes, voiceNode)
BedPlaying == ActiveBeds(nodes) # {}

\* C1: whatever was called before, at most one voice source and at most one
\* background bed are active; and a play request made in any reachable state
\* (in particular while a voice and a bed are active) leaves exactly one
\* active voice source (playVoice) or exactly one active bed (playAtmosphere,
\* playCustomBackground), the nodes of the replaced session included in the count.
C1_OneVoiceOneBed ==
    /\ Cardinality(ActiveVoices(nodes)) <= 1
    /\ Cardinality(ActiveBeds(nodes)) <= 1
    /\ \A p \in Platforms :
         /\ \A q \in Requests, v \in Volumes, off \in Offsets :
              Cardinality(ActiveVoices(playVoice(On(p), q.buffer, v, q.cb, off).nodes)) = 1
         /\ HasBedRoom =>
              /\ \A m \in MoodInputs, d \in Durations, v \in MusicVolumes, tp \in Tempos :
                   Cardinality(ActiveBeds(playAtmosphere(On(p), m, d, v, tp).nodes)) = 1
              /\ \A b \in CustomBuffers, v \in MusicVolumes :
                   Cardinality(ActiveBeds(playCustomBackground(On(p), b, v).nodes)) = 1

\* a play request was made while a voice and a bed were active, and one of each is active
C1_Witness ==
    /\ VoicePlaying /\ BedPlaying
    /\ lastCall = "playVoice"
    /\ \E q \in Requests :
         LET r == playVoice(Cur, q.buffer, 3000, q.cb, 1)
         IN  /\ r.voiceNode # voiceNode
             /\ r.nodes[voiceNode].ended
             /\ ActiveVoices(r.nodes) = {r.voiceNode}

\* C2 (as claimed): once stopAll was the last request and no teardown timer
\* is pending, no node is started or connected to the output and every
\* reference of the session is null or empty.
C2_StopReleasesEverything ==
    (lastCall = "stopAll" /\ timers = 0) =>
        /\ \A n \in DOMAIN nodes : ~Active(nodes, n) /\ ~ReachesOutput(nodes, n)
        /\ voiceNode = Null /\ voiceGainNode = Null
        /\ musicNodes = <<>> /\ customMusicNode = Null
        /\ musicGainNode = Null /\ pulseGainNode = Null

\* C3: seek(t) while the voice plays stops the playing voice node and starts
\* a new one at offset t, with the buffer, rate and listener callback of the
\* node it replaces and a gain stage set to the volume last applied to the
\* voice; every node of the bed, and the service's references to the bed,
\* are as before.
C3_SeekRestartsVoiceOnly ==
    VoicePlaying =>
        \A t \in Offsets, p \in Platforms :
            LET r   == seek(On(p), t)
                old == nodes[voiceNode]
                new == r.nodes[r.voiceNode]
            IN  /\ r.nodes[voiceNode].ended /\ r.nodes[voiceNode].out = Null
                /\ r.voiceNode # Null /\ r.voiceNode # voiceNode
                /\ r.voiceNode \notin DOMAIN nodes
                /\ ActiveVoices(r.nodes) = {r.voiceNode}
                /\ new.offset = t
                /\ new.buffer = old.buffer
                /\ new.rate = old.rate
                /\ new.onended = old.onended
                /\ new.out = r.voiceGainNode
                /\ r.nodes[r.voiceGainNode].out = Dest
                /\ r.nodes[r.voiceGainNode].gain = nodes[voiceGainNode].gain
                /\ {n \in DOMAIN r.nodes : IsBedId(n)} = {n \in DOMAIN nodes : IsBedId(n)}
                /\ \A n \in DOMAIN nodes : IsBedId(n) => r.nodes[n] = nodes[n]
                /\ r.musicNodes = musicNodes /\ r.customMusicNode = customMusicNode
                /\ r.musicGainNode = musicGainNode /\ r.pulseGainNode = pulseGainNode
                /\ r.timers = timers

\* a seek to offset 1 was made during playback over a bed, after setVolumes
\* changed the voice volume
C3_Witness ==
    /\ lastCall = "seek"
    /\ VoicePlaying /\ BedPlaying
    /\ nodes[voiceNode].offset = 1
    /\ nodes[voiceNode].rate = 15
    /\ nodes[voiceGainNode].gain = 7000

\* C4: the completion callback runs only when the 'ended' event of a voice
\* source that finished by itself is delivered, and then once; a voice node
\* ended by stopAll, seek or a later playVoice never invokes it and has no
\* 'ended' event waiting for a listener.
C4_CallbackOnlyOnNaturalEnd ==
    /\ \A n \in DOMAIN nodes :
         /\ nodes[n].fired <= 1
         /\ nodes[n].fired = 1 => nodes[n].natural
         /\ (nodes[n].natural /\ nodes[n].evt = "done") => nodes[n].fired = 1
         /\ (nodes[n].ended /\ ~nodes[n].natural) => ~Pending(nodes, n)
    /\ invoked # "null" =>
         /\ voiceNode # Null
         /\ nodes[voiceNode].natural /\ nodes[voiceNode].fired = 1
         /\ nodes[voiceNode].onended = invoked
         /\ invoked = activeOnEnded
    /\ \A p \in Platforms, t \in Offsets, q \in Requests :
         \A r \in {stopAll(On(p)), seek(On(p), t), playVoice(On(p), q.buffer, 3000, q.cb, t)} :
            /\ r.invoked = "null"
            /\ voiceNode # Null =>
                 /\ r.nodes[voiceNode].ended
                 /\ ~Pending(r.nodes, voiceNode)
                 /\ r.nodes[voiceNode].fired = nodes[voiceNode].fired

\* the voice finished by itself and its callback has just been invoked
C4_Witness ==
    /\ invoked = "cb2"
    /\ voiceNode # Null /\ nodes[voiceNode].natural /\ nodes[voiceNode].fired = 1
    /\ lastCall = "seek"

\* C5: stopAll stops and clears the voice node before it returns.  When a bed
\* gain stage exists, the bed is left running with its gain heading to zero
\* and one teardown is scheduled; the teardown itself (stopMusic, when the
\* timer fires) ends the bed.  When no bed gain stage exists stopAll does the
\* music teardown itself and schedules nothing.
C5_VoiceNowBedAfterDelay ==
    \A p \in Platforms :
        LET r == stopAll(On(p))
            d == stopMusic(On(p))
        IN  /\ r.voiceNode = Null
            /\ ActiveVoices(r.nodes) = {}
            /\ voiceNode # Null => r.nodes[voiceNode].out = Null \/ r.swallowed
            /\ IF musicGainNode # Null
               THEN /\ r.timers = timers + 1
                    /\ r.nodes[musicGainNode].gain = 0
                    /\ r.musicNodes = musicNodes /\ r.customMusicNode = customMusicNode
                    /\ r.musicGainNode = musicGainNode /\ r.pulseGainNode = pulseGainNode
                    /\ \A n \in DOMAIN nodes :
                         (IsBedId(n) /\ n # musicGainNode) => r.nodes[n] = nodes[n]
                    /\ ActiveBeds(r.nodes) = ActiveBeds(nodes)
                    /\ ActiveBeds(d.nodes) = {}
                    /\ d.musicGainNode = Null /\ d.musicNodes = <<>>
               ELSE /\ r.timers = timers
                    /\ ActiveBeds(r.nodes) = {}
                    /\ r.musicNodes = <<>> /\ r.customMusicNode = Null
                    /\ r.musicGainNode = Null /\ r.pulseGainNode = Null

\* stopAll returned: the voice is gone, the bed still sounds while it fades
\* and its teardown is pending
C5_Witness ==
    /\ lastCall = "stopAll"
    /\ voiceNode = Null /\ ActiveVoices(nodes) = {}
    /\ timers = 1
    /\ BedPlaying
    /\ musicGainNode # Null /\ nodes[musicGainNode].gain = 0

\* C6: on every platform stopMusic and stopVoiceNode return normally, stop
\* and disconnect every node whose stop() does not throw, and clear every
\* reference, also when stop() throws for some node.
C6_TeardownBestEffort ==
    \A p \in Platforms :
        LET m   == stopMusic(On(p))
            v   == stopVoiceNode(On(p))
            bed == Range(musicNodes) \cup ({customMusicNode} \ {Null})
        IN  /\ ~m.exc
            /\ m.musicNodes = <<>> /\ m.customMusicNode = Null
            /\ m.musicGainNode = Null /\ m.pulseGainNode = Null
            /\ \A n \in bed :
                 /\ m.nodes[n].ended
                 /\ ~StopThrows(On(p), n) => m.nodes[n].out = Null
            /\ musicGainNode # Null => m.nodes[musicGainNode].out = Null
            /\ pulseGainNode # Null => m.nodes[pulseGainNode].out = Null
            /\ m.swallowed = (\E n \in bed : StopThrows(On(p), n))
            /\ ~v.exc
            /\ v.voiceNode = Null
            /\ voiceNode # Null =>
                 /\ v.nodes[voiceNode].ended
                 /\ v.nodes[voiceNode].onended = "null"
                 /\ ~StopThrows(On(p), voiceNode) => v.nodes[voiceNode].out = Null
                 /\ v.swallowed = StopThrows(On(p), voiceNode)
    /\ ~uncaught

\* a teardown has just swallowed a throw of stop() and left no bed reference
C6_Witness ==
    /\ swallowed
    /\ ~uncaught
    /\ musicNodes = <<>> /\ customMusicNode = Null
    /\ musicGainNode = Null /\ pulseGainNode = Null
    /\ lastCall = "playAtmosphere"

\* C7: the session never holds, and the platform never plays, a custom
\* source together with oscillators; playCustomBackground leaves exactly one
\* active, looping custom source and no oscillator, playAtmosphere leaves
\* the oscillators it created and no custom source.
C7_BedKindsExclusive ==
    /\ ~(customMusicNode # Null /\ musicNodes # <<>>)
    /\ ~(ActiveCustoms(nodes) # {} /\ ActiveOscs(nodes) # {})
    /\ HasBedRoom =>
         \A p \in Platforms :
            /\ \A b \in CustomBuffers, v \in MusicVolumes :
                 LET r == playCustomBackground(On(p), b, v)
                 IN  /\ r.customMusicNode # Null
                     /\ ActiveCustoms(r.nodes) = {r.customMusicNode}
                     /\ r.nodes[r.customMusicNode].loop
                     /\ r.nodes[r.customMusicNode].buffer = b
                     /\ r.musicNodes = <<>>
                     /\ ActiveOscs(r.nodes) = {}
            /\ \A m \in MoodInputs, d \in Durations, v \in MusicVolumes, tp \in Tempos :
                 LET r == playAtmosphere(On(p), m, d, v, tp)
                 IN  /\ r.customMusicNode = Null
                     /\ ActiveCustoms(r.nodes) = {}
                     /\ r.musicNodes # <<>>
                     /\ ActiveOscs(r.nodes) = Range(r.musicNodes)

\* a custom bed has replaced an oscillator bed that stopAll was fading out
C7_Witness ==
    /\ lastCall = "playCustomBackground"
    /\ timers = 1
    /\ customMusicNode # Null /\ Active(nodes, customMusicNode)
    /\ musicNodes = <<>>
    /\ \E m \in MoodInputs :
         LET r == playAtmosphere(Cur, m, 5, 5000, 10)
         IN  ActiveCustoms(r.nodes) = {} /\ r.customMusicNode = Null

----------------------------------------------------------------------------
\* IEEE-754 binary64 (the JavaScript number type), as calculateWordTimings
\* uses it: non-negative values m * 2^e with 2^52 <= m < 2^53, or zero, with
\* round-to-nearest, ties-to-even.  A mantissa, and every intermediate
\* natural number, is held in three limbs <<hi, mid, lo>> of 18 bits, value
\* hi * B^2 + mid * B + lo; only hi may exceed a limb.  Exponents stay far
\* from the overflow and subnormal ranges for the inputs of the model, and
\* the integers that take part (weights and their sum) are below 2^13.
B == 2 ^ 18

Big(h, m, l) == <<h + (m + l \div B) \div B, (m + l \div B) % B, l % B>>

ZeroM == <<0, 0, 0>>

\* number of bits of n, 1 <= n < 2^30
BitLen(n) == CHOOSE k \in 1..30 : n \div (2 ^ (k - 1)) = 1

\* number of bits of x, for x >= 2^36
BigBits(x) == 36 + BitLen(x[1])

BigMul(x, w) == Big(x[1] * w, x[2] * w, x[3] * w)

BigAdd(x, y) == Big(x[1] + y[1], x[2] + y[2], x[3] + y[3])

\* floor(x / 2^s) and x mod 2^s, for 0 <= s <= 18
BigShr(x, s) ==
    <<x[1] \div (2 ^ s),
      (x[2] \div (2 ^ s)) + (x[1] % (2 ^ s)) * (2 ^ (18 - s)),
      (x[3] \div (2 ^ s)) + (x[2] % (2 ^ s)) * (2 ^ (18 - s))>>

BigLow(x, s) == x[3] % (2 ^ s)

\* floor(x / B^j), and whether x mod B^j is not zero, for x > 0 with limbs below B
Drop(x, j) ==
    CASE j = 0 -> x
      [] j = 1 -> <<0, x[1], x[2]>>
      [] j = 2 -> <<0, 0, x[1]>>
      [] OTHER -> ZeroM

Dropped(x, j) ==
    CASE j = 0 -> FALSE
      [] j = 1 -> x[3] # 0
      [] j = 2 -> x[3] # 0 \/ x[2] # 0
      [] OTHER -> TRUE

\* x / d for a divisor 2^12 <= d < 2^13: floor(x * B / d) and whether the
\* division left a remainder (schoolbook division, one limb at a time)
LongDiv(x, d) ==
    LET t2 == (x[1] % d) * B + x[2]
        t3 == (t2 % d) * B + x[3]
        t4 == (t3 % d) * B
    IN  [q |-> <<(x[1] \div d) * B + t2 \div d, t3 \div d, t4 \div d>>,
         inexact |-> t4 % d # 0]

Double(m, e) == [neg |-> FALSE, m |-> m, e |-> e]

Zero == Double(ZeroM, 0)

\* the binary64 value of the integer n, 1 <= n < 2^13
FromInt(n) == Double(<<n * (2 ^ (17 - BitLen(n))), 0, 0>>, BitLen(n) - 53)

\* q + 1 as a mantissa: 2^53 is renormalised to 2^52 with the next exponent
Successor(q, e) ==
    IF q = <<2 ^ 17 - 1, B - 1, B - 1>> THEN Double(<<2 ^ 16, 0, 0>>, e + 1)
    ELSE Double(Big(q[1], q[2], q[3] + 1), e)

\* x * 2^e with its lowest s bits rounded away, ties to even; inexact says
\* that the exact value lies above x * 2^e (by less than one unit of x)
RoundAway(x, s, inexact, e) ==
    IF s = 0 THEN Double(x, e)
    ELSE IF \/ BigLow(x, s) > 2 ^ (s - 1)
            \/ /\ BigLow(x, s) = 2 ^ (s - 1)
               /\ (inexact \/ BigShr(x, s)[3] % 2 = 1)
         THEN Successor(BigShr(x, s), e + s)
         ELSE Double(BigShr(x, s), e + s)

\* the binary64 value nearest to x * 2^e, for x >= 2^52
Round53(xs, inexact, e) ==
    Only({ Only({ RoundAway(x, s, inexact, e) : s \in {BigBits(x) - 53} })
           : x \in {xs} })

\* a / n in binary64, for an integer 1 <= n < 2^13
DDiv(a, n) ==
    Only({ Round53(r.q, r.inexact, a.e + (13 - BitLen(n)) - 18)
           : r \in {LongDiv(a.m, n * (2 ^ (13 - BitLen(n))))} })

\* w * u in binary64, for an integer 1 <= w < 2^13
DMul(w, u) == Round53(BigMul(u.m, w), FALSE, u.e)

\* a + b in binary64 for a, b > 0 with a.e - b.e = d >= 0: the sum is formed
\* with three more bits than a's mantissa, b cut to that precision with a
\* note of what was cut
AddAligned(a, b, d) ==
    IF d <= 3
    THEN Round53(BigAdd(BigMul(a.m, 8), BigMul(b.m, 2 ^ (3 - d))), FALSE, a.e - 3)
    ELSE Round53(BigAdd(BigMul(a.m, 8),
                        BigShr(Drop(b.m, (d - 3) \div 18), (d - 3) % 18)),
                 \/ Dropped(b.m, (d - 3) \div 18)
                 \/ BigLow(Drop(b.m, (d - 3) \div 18), (d - 3) % 18) # 0,
                 a.e - 3)

\* a + b in binary64, for a >= 0 and b >= 0
DAdd(a, b) ==
    IF a.m = ZeroM THEN b
    ELSE IF b.m = ZeroM THEN a
    ELSE IF a.e >= b.e THEN AddAligned(a, b, a.e - b.e)
    ELSE AddAligned(b, a, b.e - a.e)

\* a < b and a <= b, for a >= 0 and b >= 0
MLess(x, y) ==
    \/ x[1] < y[1]
    \/ x[1] = y[1] /\ x[2] < y[2]
    \/ x[1] = y[1] /\ x[2] = y[2] /\ x[3] < y[3]

DLess(a, b) ==
    IF b.m = ZeroM THEN FALSE
    ELSE IF a.m = ZeroM THEN TRUE
    ELSE a.e < b.e \/ (a.e = b.e /\ MLess(a.m, b.m))

DLeq(a, b) == a = b \/ DLess(a, b)

\* audioDuration <= 0
NotPositive(a) == a.neg \/ a.m = ZeroM

----------------------------------------------------------------------------
\* calculateWordTimings (src/unnamed/part_001).  A string is a sequence of
\* characters.

\* the characters String.prototype.trim strips and /\s/ matches
IsSpace(c) == c \in {" ", "\t", "\n"}

\* caption.trim()
Trim(cs) ==
    Only({ (IF \A i \in DOMAIN c : IsSpace(c[i]) THEN <<>>
            ELSE SubSeq(c,
                        CHOOSE i \in DOMAIN c :
                            ~IsSpace(c[i]) /\ \A j \in 1..(i - 1) : IsSpace(c[j]),
                        CHOOSE i \in DOMAIN c :
                            ~IsSpace(c[i]) /\ \A j \in (i + 1)..Len(c) : IsSpace(c[j])))
           : c \in {cs} })

\* where the k-th maximal run of non-space characters of c starts and ends
WordStarts(c) == {i \in DOMAIN c : ~IsSpace(c[i]) /\ (i = 1 \/ IsSpace(c[i - 1]))}
WordEnds(c) == {i \in DOMAIN c : ~IsSpace(c[i]) /\ (i = Len(c) \/ IsSpace(c[i + 1]))}
Nth(S, k) == CHOOSE i \in S : Cardinality({j \in S : j <= i}) = k

\* c.split(/\s+/) for a string c that does not start or end with a space:
\* the runs between the separators; the empty string gives one empty word
Split(cs) ==
    Only({ (IF c = <<>> THEN << <<>> >>
            ELSE [k \in 1..Cardinality(WordStarts(c)) |->
                    SubSeq(c, Nth(WordStarts(c), k), Nth(WordEnds(c), k))])
           : c \in {cs} })

\* (mutant) the weight without the bonus for sentence-final punctuation
Weight_NoFinal(word) ==
    Len(word) + (IF Len(word) < 3 THEN 1 ELSE 0)
              + (IF \E i \in DOMAIN word : word[i] = "," THEN 4 ELSE 0)

\* the weight of a word (part_001:254-257)
Weight(word) ==
    Len(word) + (IF Len(word) < 3 THEN 1 ELSE 0)
              + (IF \E i \in DOMAIN word : word[i] = "," THEN 4 ELSE 0)
              + (IF word # <<>> /\ word[Len(word)] \in {".", "!", "?"} THEN 8 ELSE 0)

\* weightedWords.reduce((acc, w) => acc + w.weight, 0)
RECURSIVE SumWeights(_, _)
SumWeights(words, i) ==
    IF i > Len(words) THEN 0 ELSE Weight(words[i]) + SumWeights(words, i + 1)

\* weightedWords.map((w, i) => ...) with currentTime (part_001:264-276):
\* the timings of words i.. appended to acc
RECURSIVE Walk(_, _, _, _, _)
Walk(words, unitDuration, i, currentTime, acc) ==
    IF i > Len(words) THEN acc
    ELSE Only({ Walk(words, unitDuration, i + 1, end,
                     Append(acc, [word |-> words[i], start |-> currentTime,
                                  end |-> end, index |-> i - 1]))
                : end \in {DAdd(currentTime, DMul(Weight(words[i]), unitDuration))} })

\* part_001:261-276
Timings(ws, audioDur) ==
    Only({ Only({ Walk(words, unitDuration, 1, Zero, <<>>)
                  : unitDuration \in {DDiv(audioDur, SumWeights(words, 1))} })
           : words \in {ws} })

\* calculateWordTimings (part_001:247-277)
calculateWordTimings(cap, audioDur) ==
    IF cap = <<>> \/ NotPositive(audioDur) THEN <<>>
    ELSE Timings(Split(Trim(cap)), audioDur)

----------------------------------------------------------------------------
\* calculateWordTimings applied to scripts and durations

MaxLen == 3                      \* length of the scripts drawn from Alphabet

Alphabet == {"a", ",", ".", " "}

HelloWorld == <<"H", "e", "l", "l", "o", " ", "w", "o", "r", "l", "d", ".">>

Scripts ==
    UNION {[1..n -> Alphabet] : n \in 0..MaxLen}
      \cup {HelloWorld,
            <<"a", ",", " ", "b">>,
            <<"a", "a", ",", " ", "b", ".">>,
            <<"\n", "a", "!", " ", "\t", "b", "?", " ">>}

\* 2.0, 1.0, 0.1, 0 and -1.0
AudioDurations ==
    {FromInt(2), FromInt(1), DDiv(FromInt(1), 10), Zero, [FromInt(1) EXCEPT !.neg = TRUE]}

InitTimings ==
    /\ AudioInit
    /\ OthersIdle
    /\ caption \in Scripts
    /\ audioDuration \in AudioDurations
    /\ timings = <<>>
    /\ phase = "input"

Calculate ==
    /\ phase = "input"
    /\ timings' = calculateWordTimings(caption, audioDuration)
    /\ phase' = "done"
    /\ UNCHANGED <<caption, audioDuration>>
    /\ UNCHANGED <<audioVars, otherVars, laterVars>>

NextTimings == Calculate

SpecTimings == InitTimings /\ [][NextTimings]_vars

----------------------------------------------------------------------------
\* Claims about calculateWordTimings

\* the script is non-empty, the duration positive, and the result is computed
Calculated == phase = "done" /\ caption # <<>> /\ ~NotPositive(audioDuration)

\* C8 (as claimed): for a non-empty script and a duration > 0 the result is
\* the function's value for (script, duration), every word starts no later
\* than it ends and no later than the next word starts, index[i] = i, and
\* the last word's end equals the duration exactly.
C8_LastEndIsDuration ==
    Calculated =>
        /\ timings = calculateWordTimings(caption, audioDuration)
        /\ timings # <<>>
        /\ \A i \in DOMAIN timings :
             /\ DLeq(timings[i].start, timings[i].end)
             /\ timings[i].index = i - 1
             /\ i < Len(timings) => DLeq(timings[i].start, timings[i + 1].start)
        /\ timings[Len(timings)].end = audioDuration

\* C9: each word's weight is length + (1 if length < 3) + (4 if it contains
\* ',') + (8 if it ends in '.', '!' or '?'), and each word lasts weight *
\* (duration / sum of the weights), the product and the quotient taken in
\* binary64; "Hello world." gives the two words "Hello" and "world." with
\* weights 5 and 14, total 19.
C9_WeightsAndDurations ==
    Calculated =>
        LET n == Len(timings)
            word(i) == timings[i].word
            last(i) == word(i)[Len(word(i))]
            weight(i) ==
                Len(word(i))
                  + (IF Len(word(i)) < 3 THEN 1 ELSE 0)
                  + (IF "," \in Range(word(i)) THEN 4 ELSE 0)
                  + (IF word(i) # <<>> /\ (last(i) = "." \/ last(i) = "!" \/ last(i) = "?")
                     THEN 8 ELSE 0)
            sum[i \in 0..n] == IF i = 0 THEN 0 ELSE sum[i - 1] + weight(i)
        IN  /\ \A i \in 1..n :
                 timings[i].end =
                     DAdd(timings[i].start, DMul(weight(i), DDiv(audioDuration, sum[n])))
            /\ caption = HelloWorld =>
                 /\ n = 2
                 /\ word(1) = <<"H", "e", "l", "l", "o">>
                 /\ word(2) = <<"w", "o", "r", "l", "d", ".">>
                 /\ Weight(word(1)) = 5 /\ Weight(word(2)) = 14
                 /\ SumWeights(<<word(1), word(2)>>, 1) = 19
                 /\ timings[1].end = DMul(5, DDiv(audioDuration, 19))
                 /\ timings[2].end = DAdd(timings[1].end, DMul(14, DDiv(audioDuration, 19)))

\* "Hello world." over 2.0 s was timed: "Hello" ends at 5 * (2 / 19), which
\* is 0.5263157894736842 = 4740631186705785 * 2^-53
C9_Witness ==
    /\ phase = "done"
    /\ caption = HelloWorld
    /\ audioDuration = FromInt(2)
    /\ Len(timings) = 2
    /\ timings[1].end = Double(<<68985, 68985, 68985>>, 0 - 53)

\* C10 (as claimed): the timings tile [0, duration): the first word starts
\* at 0, every later word starts where the previous one ends, and every time
\* t in [0, duration) lies in exactly one word's [start, end).  The number of
\* intervals containing t changes only at a start or an end, so the times
\* tried are 0 and every start and end.
C10_TimingsTile ==
    (Calculated /\ timings # <<>>) =>
        /\ timings[1].start = Zero
        /\ \A i \in 2..Len(timings) : timings[i].start = timings[i - 1].end
        /\ \A t \in {Zero} \cup {timings[i].start : i \in DOMAIN timings}
                           \cup {timings[i].end : i \in DOMAIN timings} :
             DLess(t, audioDuration) =>
                 Cardinality({i \in DOMAIN timings :
                                DLeq(timings[i].start, t) /\ DLess(t, timings[i].end)}) = 1

----------------------------------------------------------------------------
\* Caption chunks (src/unnamed/part_001:279-294)

\* The loop of getCaptionChunks with every window one word short of
\* WORDS_PER_CHUNK apart, so that neighbouring chunks share a word
getCaptionChunks_Overlap(wordTimings, aspectRatio) ==
    LET WORDS_PER_CHUNK == IF aspectRatio = "16:9" THEN 7 ELSE 4
        n == Len(wordTimings)
        slice(i) == SubSeq(wordTimings, i + 1,
                           IF i + WORDS_PER_CHUNK < n THEN i + WORDS_PER_CHUNK ELSE n)
        loop[i \in 0..(n + WORDS_PER_CHUNK)] ==
            IF i < n
            THEN (IF Len(slice(i)) > 0
                  THEN <<[words |-> slice(i),
                          startTime |-> slice(i)[1].start,
                          endTime |-> slice(i)[Len(slice(i))].end]>>
                  ELSE <<>>) \o loop[i + WORDS_PER_CHUNK - 1]
            ELSE <<>>
    IN  loop[0]

\* slice(i) is wordTimings.slice(i, i + WORDS_PER_CHUNK); loop[i] is what the
\* for loop pushes from index i on
getCaptionChunks(wordTimings, aspectRatio) ==
    LET WORDS_PER_CHUNK == IF aspectRatio = "16:9" THEN 7 ELSE 4
        n == Len(wordTimings)
        slice(i) == SubSeq(wordTimings, i + 1,
                           IF i + WORDS_PER_CHUNK < n THEN i + WORDS_PER_CHUNK ELSE n)
        loop[i \in 0..(n + WORDS_PER_CHUNK)] ==
            IF i < n
            THEN (IF Len(slice(i)) > 0
                  THEN <<[words |-> slice(i),
                          startTime |-> slice(i)[1].start,
                          endTime |-> slice(i)[Len(slice(i))].end]>>
                  ELSE <<>>) \o loop[i + WORDS_PER_CHUNK]
            ELSE <<>>
    IN  loop[0]

----------------------------------------------------------------------------
\* exportVideo (src/services/videoExportService.ts:4-245)

\* ms / 1000 in binary64: elapsedTime of renderLoop (line 87) for a clock
\* difference of ms milliseconds
Sec(ms) == IF ms = 0 THEN Zero ELSE DDiv(FromInt(ms), 1000)

\* the share of half the duration: (elapsedTime / totalDuration) * 200
Percent_OfHalf(elapsedTime, totalDuration) ==
    IF elapsedTime.m = ZeroM THEN Zero ELSE DMul(200, DDiv(elapsedTime, totalDuration))

\* (elapsedTime / totalDuration) * 100 in binary64 (line 97)
Percent(elapsedTime, totalDuration) ==
    IF elapsedTime.m = ZeroM THEN Zero ELSE DMul(100, DDiv(elapsedTime, totalDuration))

\* captionChunks.find(...) || (elapsedTime < duration ? captionChunks[0] : null)
\* (lines 166-168; the ReelPlayer of part_003:154-156 computes the same): the
\* position of the chunk in captionChunks, 0 for null or undefined
ActiveChunk(captionChunks, elapsedTime, duration) ==
    LET found == {k \in DOMAIN captionChunks :
                    /\ DLeq(captionChunks[k].startTime, elapsedTime)
                    /\ DLess(elapsedTime, captionChunks[k].endTime)}
    IN  IF found # {} THEN CHOOSE k \in found : \A j \in found : k <= j
        ELSE IF DLess(elapsedTime, duration) /\ captionChunks # <<>> THEN 1
        ELSE 0

\* catch (e) { reject(e); } (lines 241-243)
Reject(x, why) == [x EXCEPT !.promise = "rejected", !.failure = why, !.pc = "done"]

\* renderLoop without source.stop() on the last frame
renderLoop_KeepSource(ex, ms) ==
    Only({ IF DLeq(FromInt(x.totalDuration), Sec(ms))
           THEN [x EXCEPT !.elapsed = ms,
                          !.frames = @ + 1,
                          !.recorder = "stopping",
                          !.recorderStops = @ + 1,
                          !.scheduled = FALSE,
                          !.progress = Append(@, FromInt(100))]
           ELSE [x EXCEPT !.elapsed = ms,
                          !.frames = @ + 1,
                          !.progress = Append(@, Percent(Sec(ms), x.totalDuration)),
                          !.activeChunk =
                              IF x.showSubtitles
                              THEN ActiveChunk(x.captionChunks, Sec(ms), x.audioDuration)
                              ELSE @,
                          !.scheduled = TRUE]
           : x \in {ex} })

\* renderLoop when the clock shows ms milliseconds since startTime (lines
\* 85-237); of what it draws only the caption chunk is kept
renderLoop(ex, ms) ==
    Only({ IF DLeq(FromInt(x.totalDuration), Sec(ms))
           THEN [x EXCEPT !.elapsed = ms,
                          !.frames = @ + 1,
                          !.recorder = "stopping",
                          !.recorderStops = @ + 1,
                          !.source = "stopped",
                          !.sourceStops = @ + 1,
                          !.scheduled = FALSE,
                          !.progress = Append(@, FromInt(100))]
           ELSE [x EXCEPT !.elapsed = ms,
                          !.frames = @ + 1,
                          !.progress = Append(@, Percent(Sec(ms), x.totalDuration)),
                          !.activeChunk =
                              IF x.showSubtitles
                              THEN ActiveChunk(x.captionChunks, Sec(ms), x.audioDuration)
                              ELSE @,
                          !.scheduled = TRUE]
           : x \in {ex} })

\* Lines 39-82 and 239: the audio graph, the recorder, the caption chunks,
\* recorder.start(), source.start() and the first, synchronous renderLoop();
\* `new MediaRecorder` throws when the container is not supported
Record(ex, recorderOk) ==
    Only({ IF ~recorderOk
           THEN Reject([x EXCEPT !.audioCtx = "running", !.source = "created"], "recorder")
           ELSE renderLoop([x EXCEPT !.audioCtx = "running",
                                     !.source = "started",
                                     !.recorder = "recording",
                                     !.captionChunks =
                                         getCaptionChunks(x.wordTimings, x.aspectRatio),
                                     !.pc = "recording"], 0)
           : x \in {ex} })

MaxWords == 9                    \* words of the longest WordTiming sequence
MaxImages == 1                   \* images of an export

\* <<offset, step, length>> in ms of the words of an input sequence: words that
\* follow each other without a gap from 0 on, and words 100 ms apart from 0.3 s on
Layouts == {<<0, 100, 100>>, <<300, 200, 100>>}

WordTimingsOf(n, l) ==
    [i \in 1..n |-> [word |-> <<"a">>,
                     start |-> Sec(l[1] + (i - 1) * l[2]),
                     end |-> Sec(l[1] + (i - 1) * l[2] + l[3]),
                     index |-> i - 1]]

\* clock differences between two animation frames, in ms
FrameSteps == {300, 400}

\* exportVideo was called and its promise executor is about to run
InitExport ==
    /\ AudioInit
    /\ TimingIdle
    /\ app = [pc |-> "idle"]
    /\ LaterIdle
    /\ \E n \in 0..MaxWords, l \in Layouts, ratio \in {"9:16", "16:9"},
          total \in {1, 2}, audio \in {900, 1500}, subs \in BOOLEAN,
          imgs \in 0..MaxImages :
         export = [images |-> imgs,
                   wordTimings |-> WordTimingsOf(n, l),
                   aspectRatio |-> ratio,
                   totalDuration |-> total,
                   audioDuration |-> Sec(audio),
                   showSubtitles |-> subs,
                   pc |-> "start",
                   loadedImages |-> 0,
                   audioCtx |-> "none",
                   source |-> "none",
                   recorder |-> "none",
                   captionChunks |-> <<>>,
                   elapsed |-> 0,
                   frames |-> 0,
                   scheduled |-> FALSE,
                   progress |-> <<>>,
                   activeChunk |-> 0,
                   recorderStops |-> 0,
                   sourceStops |-> 0,
                   failure |-> "none",
                   promise |-> "pending"]

Step(x) ==
    /\ export' = x
    /\ UNCHANGED <<audioVars, timingVars, app, laterVars>>

\* The executor up to its first await (lines 14-29): the canvas either gives a
\* 2D context or not; without images the executor runs on to line 239
ExportStart ==
    /\ export.pc = "start"
    /\ \E ctx \in BOOLEAN, recorderOk \in BOOLEAN :
         Step(IF ~ctx THEN Reject(export, "context")
              ELSE IF export.images = 0 THEN Record(export, recorderOk)
              ELSE [export EXCEPT !.pc = "loading"])

\* img.onload (lines 31-34): the executor resumes with the next image, or
\* after the last one with line 39
ImageLoaded ==
    /\ export.pc = "loading"
    /\ \E recorderOk \in BOOLEAN :
         Step(IF export.loadedImages + 1 < export.images
              THEN [export EXCEPT !.loadedImages = @ + 1]
              ELSE Record([export EXCEPT !.loadedImages = @ + 1], recorderOk))

\* The image does not decode: the browser fires `error`, for which lines 29-36
\* register no handler, so resolveImg is never called
ImageError ==
    /\ export.pc = "loading"
    /\ Step([export EXCEPT !.failure = "decode", !.pc = "awaiting image"])

\* The callback of requestAnimationFrame (line 236)
Frame ==
    /\ export.pc = "recording"
    /\ export.scheduled
    /\ \E d \in FrameSteps : Step(renderLoop(export, export.elapsed + d))

\* recorder.onstop (lines 61-65), dispatched after recorder.stop()
RecorderStopped ==
    /\ export.pc = "recording"
    /\ export.recorder = "stopping"
    /\ Step([export EXCEPT !.recorder = "stopped",
                           !.audioCtx = "closed",
                           !.promise = "resolved",
                           !.pc = "done"])

NextExport ==
    \/ ExportStart
    \/ ImageLoaded
    \/ ImageError
    \/ Frame
    \/ RecorderStopped

SpecExport == InitExport /\ [][NextExport]_vars

----------------------------------------------------------------------------
\* Claims about the caption chunks and exportVideo

\* line 67 was reached: captionChunks holds getCaptionChunks(wordTimings, aspectRatio)
ChunksBuilt == export.recorder # "none"

\* a frame was drawn with captions, and it is the last thing renderLoop did
CaptionDrawn == export.scheduled /\ export.showSubtitles

\* C11: the word lists of the chunks, concatenated in order, are the input
\* sequence; no chunk is empty, every chunk but the last has exactly N words
\* (7 for 16:9, 4 for 9:16) and the last at most N, and a chunk's startTime
\* and endTime are its first word's start and its last word's end.
C11_ChunksPartition ==
    ChunksBuilt =>
        LET c == export.captionChunks
            N == IF export.aspectRatio = "16:9" THEN 7 ELSE 4
            concat[k \in 0..Len(c)] == IF k = 0 THEN <<>> ELSE concat[k - 1] \o c[k].words
        IN  /\ concat[Len(c)] = export.wordTimings
            /\ \A k \in DOMAIN c :
                 /\ c[k].words # <<>>
                 /\ Len(c[k].words) <= N
                 /\ k < Len(c) => Len(c[k].words) = N
                 /\ c[k].startTime = c[k].words[1].start
                 /\ c[k].endTime = c[k].words[Len(c[k].words)].end

\* nine words in portrait format were cut into chunks of 4, 4 and 1 words
C11_Witness ==
    /\ ChunksBuilt
    /\ export.aspectRatio = "9:16"
    /\ Len(export.wordTimings) = 9
    /\ Len(export.captionChunks) = 3
    /\ Len(export.captionChunks[3].words) = 1
    /\ export.captionChunks[2].words[1].index = 4

\* C12 (as claimed): the chunk shown at an elapsed time is the first chunk
\* whose [startTime, endTime) contains it; when no chunk contains it, the
\* first chunk is shown if the time is before the first chunk's start and
\* before the audio's end, and no chunk is shown otherwise, so that in a gap
\* between two chunks and after the audio's end nothing is shown.
C12_ActiveChunkSelection ==
    CaptionDrawn =>
        LET c == export.captionChunks
            t == Sec(export.elapsed)
            containing == {k \in DOMAIN c : DLeq(c[k].startTime, t) /\ DLess(t, c[k].endTime)}
        IN  IF containing # {}
            THEN /\ export.activeChunk \in containing
                 /\ \A k \in containing : export.activeChunk <= k
            ELSE IF c # <<>> /\ DLess(t, c[1].startTime) /\ DLess(t, export.audioDuration)
                 THEN export.activeChunk = 1
                 ELSE export.activeChunk = 0

\* renderLoop ran with elapsedTime >= totalDuration
StopFrame == export.frames > 0 /\ DLeq(FromInt(export.totalDuration), Sec(export.elapsed))

\* C13: the frame with elapsedTime >= totalDuration stops the recorder and
\* the audio source, reports progress 100 and requests no further frame;
\* recorder.stop and source.stop are called at most once, and only in that
\* frame; the promise resolves only after it, and what follows that frame is
\* the recorder's stop event, whose handler resolves the promise.
C13_StopFrame ==
    /\ [](export.pc \in {"recording", "done"} =>
            /\ export.recorderStops = (IF StopFrame THEN 1 ELSE 0)
            /\ export.sourceStops = export.recorderStops
            /\ StopFrame =>
                 /\ export.recorder \in {"stopping", "stopped"}
                 /\ export.source = "stopped"
                 /\ export.progress[Len(export.progress)] = FromInt(100)
                 /\ ~export.scheduled
                 /\ export.promise = "pending" => ENABLED RecorderStopped
            /\ export.promise = "resolved" => StopFrame /\ export.recorder = "stopped")
    /\ [][export.pc = "recording" /\ StopFrame => export'.promise = "resolved"]_vars

\* an export of 2 s resolved after eight frames, the last one at 2.1 s
C13_Witness ==
    /\ export.promise = "resolved"
    /\ export.totalDuration = 2
    /\ export.frames = 8
    /\ export.elapsed = 2100
    /\ export.recorderStops = 1
    /\ export.sourceStops = 1

\* C14: the values passed to onProgress never decrease, every value other
\* than the last one of a completed export is below 100, a completed export's
\* last value is exactly 100, and 100 is reported only by the stop frame, after
\* which nothing is reported.
C14_ProgressMonotone ==
    export.pc \in {"recording", "done"} =>
        LET p == export.progress
        IN  /\ \A i \in 1..(Len(p) - 1) : DLeq(p[i], p[i + 1]) /\ DLess(p[i], FromInt(100))
            /\ Len(p) = export.frames
            /\ StopFrame => p[Len(p)] = FromInt(100)
            /\ (~StopFrame /\ p # <<>>) => DLess(p[Len(p)], FromInt(100))
            /\ export.promise = "resolved" => StopFrame

\* a completed export of 1 s with frames at 0, 0.3, 0.7 and 1.1 s reported
\* 0, 30, 70 (binary64: 0.3 / 1 * 100 and 0.7 / 1 * 100) and 100
C14_Witness ==
    /\ export.promise = "resolved"
    /\ export.totalDuration = 1
    /\ Len(export.progress) = 4
    /\ export.progress[1] = Zero
    /\ export.progress[2] = DMul(100, Sec(300))
    /\ export.progress[3] = DMul(100, Sec(700))
    /\ export.progress[4] = FromInt(100)

\* C15 (as claimed): whenever the setup of an export has failed (no 2D
\* context, an image that does not decode, a recorder that cannot be
\* constructed), the returned promise is rejected.
C15_SetupFailureRejects ==
    export.failure # "none" => export.promise = "rejected"

\* C16 (as claimed): once the promise of an export is settled, resolved or
\* rejected, the AudioContext the export created is closed and the buffer
\* source it created is stopped.
C16_AudioReleasedOnExit ==
    export.promise # "pending" =>
        /\ export.audioCtx \in {"none", "closed"}
        /\ export.source \in {"none", "stopped"}

----------------------------------------------------------------------------
\* The generation flow of the App component.  The repository holds two
\* versions of it, each with its own generateImage:
\*   "App.tsx"   src/App.tsx:79-155 (tone prompt, transcription), whose
\*               service functions are those of part_001:39-233
\*               (= videoExportService.ts:391-599)
\*   "part_004"  src/unnamed/part_004:155-242 (voice and images requested
\*               together), whose service functions are those of
\*               geminiService.ts
\* In part_004 the key check of ensureKeyAndCall finds a key, the target
\* language is 'en', the background mode is 'Auto' with music enabled (the
\* initial settings), and a click is handled only when no generation is under
\* way.  Volumes, rates and tempo have the units of the AudioService model;
\* the duration of a voice buffer is in whole seconds.

NoBuffer == [id |-> "null", duration |-> 0]

\* what analyzeScript may return as mood: the members of Mood and MusicPreset
\* and a tag outside both
AnalysisMoods ==
    {"Neutral", "Happy", "Sad", "Tense", "Excited", "Mysterious", "Professional",
     "ViralPhonk", "LofiChill", "BollywoodRomance", "DesiBeats", "EpicCinematic", "Bogus"}

\* (mutant) getMixBuffer with the pulse gain stage connected to the destination
getMixBuffer_Bypass(voiceBuffer, mood, totalDuration, voiceVol, musicVol, tempo, customMusicBuffer, playbackSpeed) ==
    LET p == getFrequenciesAndType(mood)
        n == Len(p.frequencies)
        voice == <<[Node("source", "voiceSrc") EXCEPT
                      !.buffer = voiceBuffer, !.rate = playbackSpeed, !.out = 2,
                      !.started = TRUE],
                   [Node("gain", "voiceGain") EXCEPT !.gain = voiceVol, !.out = Dest],
                   [Node("gain", "bgGain") EXCEPT !.gain = musicVol, !.out = Dest]>>
        custom == <<[Node("source", "customSrc") EXCEPT
                       !.buffer = customMusicBuffer, !.loop = TRUE, !.out = 3,
                       !.started = TRUE]>>
        pulse == <<[Node("gain", "pulseGain") EXCEPT !.gain = 10000, !.out = Dest],
                   [Node("osc", "lfo") EXCEPT
                      !.wave = "sine", !.freq = (p.lfoFreq * tempo) \div 10, !.out = 6,
                      !.started = TRUE],
                   [Node("gain", "lfoAmp") EXCEPT
                      !.gain = p.lfoDepth, !.out = 4, !.via = "gain"]>>
        partial(i) == <<[Node("osc", "osc") EXCEPT
                           !.wave = p.type, !.freq = p.frequencies[i],
                           !.out = 6 + 4 * i, !.started = TRUE],
                        [Node("osc", "oscDetuneLFO") EXCEPT
                           !.freq = 20 * i * tempo, !.out = 5 + 4 * i, !.started = TRUE],
                        [Node("gain", "detuneAmp") EXCEPT
                           !.gain = p.detuneAmount * 2, !.out = 3 + 4 * i, !.via = "detune"],
                        [Node("gain", "oscVol") EXCEPT
                           !.gain = 1500 \div n, !.out = 4]>>
        partials[i \in 0..n] == IF i = 0 THEN <<>> ELSE partials[i - 1] \o partial(i)
    IN  IF mood = "Custom" /\ customMusicBuffer # "null" THEN voice \o custom
        ELSE IF mood # "Custom" THEN voice \o pulse \o partials[n]
        ELSE voice

\* getMixBuffer (audioService.ts:293-372): the nodes created in the offline
\* context, in order of creation; out is the position of the node a node is
\* connected to
getMixBuffer(voiceBuffer, mood, totalDuration, voiceVol, musicVol, tempo, customMusicBuffer, playbackSpeed) ==
    LET p == getFrequenciesAndType(mood)
        n == Len(p.frequencies)
        voice == <<[Node("source", "voiceSrc") EXCEPT
                      !.buffer = voiceBuffer, !.rate = playbackSpeed, !.out = 2,
                      !.started = TRUE],
                   [Node("gain", "voiceGain") EXCEPT !.gain = voiceVol, !.out = Dest],
                   [Node("gain", "bgGain") EXCEPT !.gain = musicVol, !.out = Dest]>>
        custom == <<[Node("source", "customSrc") EXCEPT
                       !.buffer = customMusicBuffer, !.loop = TRUE, !.out = 3,
                       !.started = TRUE]>>
        pulse == <<[Node("gain", "pulseGain") EXCEPT !.gain = 10000, !.out = 3],
                   [Node("osc", "lfo") EXCEPT
                      !.wave = "sine", !.freq = (p.lfoFreq * tempo) \div 10, !.out = 6,
                      !.started = TRUE],
                   [Node("gain", "lfoAmp") EXCEPT
                      !.gain = p.lfoDepth, !.out = 4, !.via = "gain"]>>
        partial(i) == <<[Node("osc", "osc") EXCEPT
                           !.wave = p.type, !.freq = p.frequencies[i],
                           !.out = 6 + 4 * i, !.started = TRUE],
                        [Node("osc", "oscDetuneLFO") EXCEPT
                           !.freq = 20 * i * tempo, !.out = 5 + 4 * i, !.started = TRUE],
                        [Node("gain", "detuneAmp") EXCEPT
                           !.gain = p.detuneAmount * 2, !.out = 3 + 4 * i, !.via = "detune"],
                        [Node("gain", "oscVol") EXCEPT
                           !.gain = 1500 \div n, !.out = 4]>>
        partials[i \in 0..n] == IF i = 0 THEN <<>> ELSE partials[i - 1] \o partial(i)
    IN  IF mood = "Custom" /\ customMusicBuffer # "null" THEN voice \o custom
        ELSE IF mood # "Custom" THEN voice \o pulse \o partials[n]
        ELSE voice

\* transcribeGeneratedAudio (part_001:39-80) for what the transcription
\* request produces: "error" (the request fails after its retries), "no text",
\* "not json" (JSON.parse throws), "empty" (the text is "[]") or "words"
\* (an array of two timed words); null is [null |-> TRUE]
transcribeGeneratedAudio(response) ==
    IF response = "words"
    THEN [null |-> FALSE,
          words |-> [i \in 1..2 |-> [WordTimingsOf(2, <<0, 100, 100>>)[i] EXCEPT !.index = i - 1]]]
    ELSE IF response = "empty" THEN [null |-> FALSE, words |-> <<>>]
    ELSE [null |-> TRUE, words |-> <<>>]

\* generateImage for what the image request produces: "image", "no image" (a
\* response without inlineData) or "error" (the request fails after its
\* retries).  part_001:216-233 catches the error and returns null,
\* geminiService.ts:291-313 lets it reject.
generateImage(version, response) ==
    IF response = "image" THEN "data"
    ELSE IF response = "no image" THEN "null"
    ELSE IF version = "App.tsx" THEN "null"
    ELSE "rejected"

\* finally without the reset of the flags
Finally_KeepFlags(a) == [a EXCEPT !.pc = "ready"]

\* finally { setIsGenerating(false); setIsTranscribing(false); } (App.tsx:111-114;
\* part_004:197-201 also resets isAnalyzing)
Finally(a) ==
    [a EXCEPT !.isGenerating = FALSE,
              !.isTranscribing = FALSE,
              !.isAnalyzing = IF a.version = "part_004" THEN FALSE ELSE @,
              !.pc = "ready"]

\* Promise.all over the image requests settled, then App.tsx:104-107 or
\* part_004:190-195; a rejected request rejects Promise.all and nothing is set
Publish(a, buffer, finalTimings, images) ==
    IF \E i \in DOMAIN images : images[i] = "rejected"
    THEN [a EXCEPT !.outcome = "aborted"]
    ELSE [a EXCEPT !.audioBuffer = buffer,
                   !.generatedImages = SelectSeq(images, LAMBDA img : img # "null"),
                   !.wordTimings = finalTimings,
                   !.outcome = "published"]

MaxPrompts == 2                  \* visual prompts of an analysis

\* The component is mounted (App.tsx:15-49, part_004:15-60)
InitApp ==
    /\ AudioInit
    /\ TimingIdle
    /\ export = [pc |-> "idle"]
    /\ LaterIdle
    /\ \E v \in {"App.tsx", "part_004"}, sc \in {<<"a", ",", " ", "b">>, <<" ">>} :
         app = [version |-> v,
                script |-> sc,
                isAnalyzing |-> FALSE,
                isGenerating |-> FALSE,
                isTranscribing |-> FALSE,
                isPlaying |-> FALSE,
                showTonePrompt |-> FALSE,
                isRenderingVideo |-> FALSE,
                pendingAnalysis |-> 0 - 1,
                mood |-> "none",
                bedMood |-> "none",
                mix |-> <<>>,
                audioBuffer |-> NoBuffer,
                generatedImages |-> <<>>,
                wordTimings |-> <<>>,
                pc |-> "ready",
                buffer |-> NoBuffer,
                finalTimings |-> <<>>,
                speech |-> "none",
                transcript |-> "none",
                images |-> <<>>,
                outcome |-> "none"]

AppStep(a) ==
    /\ app' = a
    /\ UNCHANGED <<timingVars, export, laterVars>>

\* the page can be clicked: neither the tone prompt (App.tsx:185) nor the
\* export overlay (App.tsx:175) covers it
Clickable == ~app.showTonePrompt /\ ~app.isRenderingVideo

\* stopAll() can be called: a fade it starts has a timer to run in
CanStop == musicGainNode # Null => timers < MaxTimers

\* handleAnalyzeAndGenerate up to its await (App.tsx:118-131, part_004:155-178);
\* the button is disabled by the flags
HandleAnalyzeAndGenerate ==
    /\ app.pc = "ready"
    /\ ~(app.isAnalyzing \/ app.isGenerating \/ app.isTranscribing)
    /\ Clickable
    /\ CanStop
    /\ Trim(app.script) # <<>>
    /\ Assign(stopAll(Cur), "stopAll")
    /\ AppStep([app EXCEPT !.audioBuffer = NoBuffer,
                           !.generatedImages = <<>>,
                           !.wordTimings = <<>>,
                           !.isPlaying = FALSE,
                           !.isAnalyzing = TRUE,
                           !.pc = "analyzing",
                           !.speech = "none",
                           !.transcript = "none",
                           !.images = <<>>,
                           !.outcome = "none"])

\* analyzeScript settled (App.tsx:131-141, part_004:178-186): prompts is the
\* number of visual prompts, -1 for a failed request
AnalysisSettled ==
    /\ app.pc = "analyzing"
    /\ \E prompts \in (0 - 1)..MaxPrompts, mood \in AnalysisMoods :
         AppStep(IF prompts < 0
                 THEN (IF app.version = "App.tsx"
                       THEN [app EXCEPT !.isAnalyzing = FALSE, !.outcome = "aborted",
                                        !.pc = "ready"]
                       ELSE Finally([app EXCEPT !.outcome = "aborted"]))
                 ELSE IF app.version = "App.tsx"
                 THEN [app EXCEPT !.pendingAnalysis = prompts,
                                  !.mood = mood,
                                  !.isAnalyzing = FALSE,
                                  !.showTonePrompt = TRUE,
                                  !.pc = "ready"]
                 ELSE [app EXCEPT !.pendingAnalysis = prompts,
                                  !.mood = mood,
                                  !.isAnalyzing = FALSE,
                                  !.isGenerating = TRUE,
                                  !.pc = "generating"])
    /\ UNCHANGED audioVars

\* startGenerationFlow (App.tsx:79-92), from either button of the tone prompt
StartGenerationFlow ==
    /\ app.showTonePrompt
    /\ app.pendingAnalysis >= 0
    /\ AppStep([app EXCEPT !.showTonePrompt = FALSE, !.isGenerating = TRUE, !.pc = "speech"])
    /\ UNCHANGED audioVars

\* the third button of the tone prompt (App.tsx:212)
ClosePrompt ==
    /\ app.showTonePrompt
    /\ AppStep([app EXCEPT !.showTonePrompt = FALSE])
    /\ UNCHANGED audioVars

\* generateSpeech settled and decodeAudio ran (App.tsx:88-96): speech is
\* "audio", "error" (the request fails) or "malformed" (decodeAudio throws)
SpeechSettled ==
    /\ app.pc = "speech"
    /\ \E speech \in {"audio", "error", "malformed"}, d \in {1, 2} :
         AppStep(IF speech = "audio"
                 THEN [app EXCEPT !.speech = speech,
                                  !.buffer = [id |-> "b1", duration |-> d],
                                  !.isTranscribing = TRUE,
                                  !.pc = "transcribing"]
                 ELSE Finally([app EXCEPT !.speech = speech, !.outcome = "aborted"]))
    /\ UNCHANGED audioVars

\* transcribeGeneratedAudio settled (App.tsx:96-102); without visual prompts
\* Promise.all resolves at once
TranscriptionSettled ==
    /\ app.pc = "transcribing"
    /\ \E response \in {"error", "no text", "not json", "empty", "words"} :
         \E preciseTimings \in {transcribeGeneratedAudio(response)} :
           \E a \in {[app EXCEPT !.transcript = response,
                                 !.isTranscribing = FALSE,
                                 !.finalTimings =
                                     IF ~preciseTimings.null THEN preciseTimings.words
                                     ELSE calculateWordTimings(app.script,
                                                               FromInt(app.buffer.duration)),
                                 !.pc = "images"]} :
             AppStep(IF a.pendingAnalysis = 0
                     THEN Finally(Publish(a, a.buffer, a.finalTimings, <<>>))
                     ELSE a)
    /\ UNCHANGED audioVars

\* Promise.all(imagePromises) settled (App.tsx:101-114)
ImagesSettled ==
    /\ app.pc = "images"
    /\ \E responses \in [1..app.pendingAnalysis -> {"image", "no image", "error"}] :
         AppStep(Finally(Publish([app EXCEPT !.images = responses], app.buffer, app.finalTimings,
                                 [i \in 1..app.pendingAnalysis |->
                                     generateImage(app.version, responses[i])])))
    /\ UNCHANGED audioVars

\* Promise.all([audioPromise, ...imagePromises]) settled (part_004:183-201)
GenerationSettled ==
    /\ app.pc = "generating"
    /\ \E speech \in {"audio", "error", "malformed"}, d \in {1, 2},
          responses \in [1..app.pendingAnalysis -> {"image", "no image", "error"}] :
         \E a \in {[app EXCEPT !.speech = speech, !.images = responses]} :
           AppStep(IF speech = "audio"
                   THEN Finally(Publish(a, [id |-> "b1", duration |-> d],
                                        calculateWordTimings(app.script, FromInt(d)),
                                        [i \in 1..app.pendingAnalysis |->
                                            generateImage(app.version, responses[i])]))
                   ELSE Finally([a EXCEPT !.outcome = "aborted"]))
    /\ UNCHANGED audioVars

\* togglePlay (App.tsx:145-155, part_004:220-242)
TogglePlay ==
    /\ Clickable
    /\ app.audioBuffer # NoBuffer
    /\ IF app.isPlaying
       THEN /\ CanStop
            /\ Assign(stopAll(Cur), "stopAll")
            /\ AppStep([app EXCEPT !.isPlaying = FALSE])
       ELSE IF app.version = "App.tsx"
       THEN /\ Assign(playVoice(setVoiceSpeed(Cur, 10), app.audioBuffer.id, 10000, "cb1", 0),
                      "playVoice")
            /\ AppStep([app EXCEPT !.isPlaying = TRUE])
       ELSE /\ HasBedRoom
            /\ \E s \in {playAtmosphere(Cur, app.mood, app.audioBuffer.duration, 2000, 10)} :
                 Assign(setVolumes(playVoice(setVoiceSpeed(s, 10), app.audioBuffer.id,
                                             10000, "cb2", 0),
                                   10000, 2000),
                        "playVoice")
            /\ AppStep([app EXCEPT !.isPlaying = TRUE, !.bedMood = app.mood])

\* handleDownloadVideo up to its first await (App.tsx:157-162,
\* part_004:285-297): mix holds what getMixBuffer built
HandleDownloadVideo ==
    /\ Clickable
    /\ app.audioBuffer # NoBuffer
    /\ app.generatedImages # <<>>
    /\ IF app.version = "App.tsx"
       THEN /\ AppStep([app EXCEPT !.isRenderingVideo = TRUE,
                                   !.mix = getMixBuffer(app.audioBuffer.id, app.mood,
                                                        app.audioBuffer.duration,
                                                        10000, 0, 10, "null", 10)])
            /\ UNCHANGED audioVars
       ELSE /\ CanStop
            /\ Assign(stopAll(Cur), "stopAll")
            /\ AppStep([app EXCEPT !.isRenderingVideo = TRUE,
                                   !.mix = getMixBuffer(app.audioBuffer.id, app.mood,
                                                        app.audioBuffer.duration,
                                                        10000, 2000, 10, "null", 10)])

\* getMixBuffer and exportVideo settled (App.tsx:163-170, part_004:298-312)
DownloadSettled ==
    /\ app.isRenderingVideo
    /\ AppStep([app EXCEPT !.isRenderingVideo = FALSE, !.mix = <<>>])
    /\ UNCHANGED audioVars

\* The 'ended' event of the voice is dispatched: the callback passed to
\* playVoice is () => setIsPlaying(false) in App.tsx:153 and () => {} in
\* part_004:239
VoiceCallback ==
    /\ \E n \in DOMAIN nodes :
         /\ Pending(nodes, n)
         /\ \E s \in {onendedHandler(Cur, n)} :
              /\ Assign(s, lastCall)
              /\ AppStep(IF s.invoked = "cb1" THEN [app EXCEPT !.isPlaying = FALSE] ELSE app)

NextApp ==
    \/ HandleAnalyzeAndGenerate
    \/ AnalysisSettled
    \/ StartGenerationFlow
    \/ ClosePrompt
    \/ SpeechSettled
    \/ TranscriptionSettled
    \/ ImagesSettled
    \/ GenerationSettled
    \/ TogglePlay
    \/ HandleDownloadVideo
    \/ DownloadSettled
    \/ VoiceEnds
    \/ VoiceCallback
    \/ BedExpires
    \/ TimerFires

SpecApp == InitApp /\ [][NextApp]_vars

----------------------------------------------------------------------------
\* Claims about the generation flow

\* C17 (as claimed): a transcription that fails or yields no usable word
\* timings (a failed request, a response without text, text that is not JSON,
\* an empty list) does not abort the generation, and the word timings
\* published are those of calculateWordTimings for the script and the
\* duration of the decoded voice.
C17_TranscriptionFallback ==
    (app.pc = "ready" /\ app.transcript \in {"error", "no text", "not json", "empty"}) =>
        /\ app.outcome = "published"
        /\ app.audioBuffer = app.buffer
        /\ app.wordTimings = calculateWordTimings(app.script, FromInt(app.audioBuffer.duration))

\* C18 (as claimed): a generation whose voice was synthesised and decoded and
\* in which image requests failed still publishes the voice buffer and the
\* word timings, with one image per request that returned image data.
C18_ImageFailuresTolerated ==
    (app.pc = "ready" /\ app.speech = "audio"
       /\ \E i \in DOMAIN app.images : app.images[i] = "error") =>
        /\ app.outcome = "published"
        /\ app.audioBuffer # NoBuffer
        /\ app.wordTimings =
               (IF app.version = "App.tsx" THEN app.finalTimings
                ELSE calculateWordTimings(app.script, FromInt(app.audioBuffer.duration)))
        /\ Len(app.generatedImages) =
               Cardinality({i \in DOMAIN app.images : app.images[i] = "image"})

Tones(ns, ids) ==
    LET tone == SelectSeq(ids, LAMBDA n : ns[n].role = "osc")
    IN  [i \in DOMAIN tone |-> <<ns[tone[i]].freq, ns[tone[i]].wave>>]

\* the frequencies of a profile, each with the profile's waveform
ProfileTones(p) == [i \in DOMAIN p.frequencies |-> <<p.frequencies[i], p.type>>]

\* C20: for every tag an analysis may carry, getFrequenciesAndType gives a
\* profile with at least one frequency, and for a tag outside Mood and
\* MusicPreset the profile of the three sine partials 220, 277 and 330 Hz;
\* the bed built by playAtmosphere and the graph built by getMixBuffer hold
\* one tone oscillator per frequency of the profile, in order, with the
\* profile's waveform.
C20_DefaultProfile ==
    /\ app.mood # "none" =>
         /\ getFrequenciesAndType(app.mood).frequencies # <<>>
         /\ app.mood \notin (AnalysisMoods \ {"Bogus"}) =>
              getFrequenciesAndType(app.mood) =
                  [frequencies |-> <<22000, 27700, 33000>>, type |-> "sine",
                   detuneAmount |-> 5, lfoFreq |-> 200, lfoDepth |-> 500]
    /\ musicNodes # <<>> =>
         Tones(nodes, musicNodes) = ProfileTones(getFrequenciesAndType(app.bedMood))
    /\ app.mix # <<>> =>
         Tones(app.mix, [i \in DOMAIN app.mix |-> i])
             = ProfileTones(getFrequenciesAndType(app.mood))

\* a bed plays and a mix is being exported for the unrecognised tag "Bogus":
\* each holds three sine oscillators at 220, 277 and 330 Hz
C20_Witness ==
    /\ app.mood = "Bogus"
    /\ app.bedMood = "Bogus"
    /\ Tones(nodes, musicNodes) = <<<<22000, "sine">>, <<27700, "sine">>, <<33000, "sine">>>>
    /\ Len(app.mix) = 18
    /\ Tones(app.mix, [i \in DOMAIN app.mix |-> i])
           = <<<<22000, "sine">>, <<27700, "sine">>, <<33000, "sine">>>>

----------------------------------------------------------------------------
\* decodeAudio and bufferToWav (audioService.ts:35-56, 388-431)
\*
\* A byte is an integer of 0..255.  A sample of an AudioBuffer is a float32;
\* the samples that occur here are the multiples k / 32768 with |k| < 2^24,
\* which float32 and binary64 hold exactly, and a sample is written as its
\* numerator k.  An AudioBuffer is the record of its numberOfChannels, length
\* (in frames), sampleRate and channels (one sequence of samples per channel).

MaxFrames == 2
MaxPayload == 6

\* window.atob (audioService.ts:37), the forgiving-base64 decode of the HTML
\* standard: ASCII whitespace is dropped; when the rest has a length that is a
\* multiple of four, up to two trailing "=" are dropped; a length of 4k+1 or a
\* character outside the base64 alphabet is an InvalidCharacterError; every
\* character stands for six bits and the bits that do not fill a byte are
\* discarded.  Of the alphabet, "A" (000000) and "/" (111111) occur here.
atob(base64Data) ==
    LET stripped == SelectSeq(base64Data, LAMBDA c : c # " ")
        n == Len(stripped)
        pad == IF n > 0 /\ n % 4 = 0
               THEN IF stripped[n] = "=" /\ stripped[n - 1] = "=" THEN 2
                    ELSE IF stripped[n] = "=" THEN 1 ELSE 0
               ELSE 0
        data == SubSeq(stripped, 1, n - pad)
        sextet(c) == IF c = "/" THEN 63 ELSE 0
        bit(k) == (sextet(data[(k \div 6) + 1]) \div (2 ^ (5 - (k % 6)))) % 2
        octet(o) == 128 * bit(o) + 64 * bit(o + 1) + 32 * bit(o + 2)
                    + 16 * bit(o + 3) + 8 * bit(o + 4) + 4 * bit(o + 5)
                    + 2 * bit(o + 6) + bit(o + 7)
    IN  IF Len(data) % 4 = 1 \/ \E i \in 1..Len(data) : data[i] \notin {"A", "/"}
        THEN [threw |-> "InvalidCharacterError", binaryString |-> <<>>]
        ELSE [threw |-> "none",
              binaryString |-> [j \in 1..((Len(data) * 6) \div 8) |-> octet(8 * (j - 1))]]

NoAudioBuffer == [numberOfChannels |-> 0, length |-> 0, sampleRate |-> 0, channels |-> <<>>]

\* decodeAudio with the bytes of a sample taken high byte first
decodeAudio_BigEndian(base64Data) ==
    LET bin == atob(base64Data)
        bytes == bin.binaryString
        int16(i) == Only({IF v >= 32768 THEN v - 65536 ELSE v :
                          v \in {256 * bytes[2 * i - 1] + bytes[2 * i]}})
    IN  IF bin.threw # "none" THEN [threw |-> bin.threw, buffer |-> NoAudioBuffer]
        ELSE IF Len(bytes) % 2 # 0 THEN [threw |-> "RangeError", buffer |-> NoAudioBuffer]
        ELSE IF Len(bytes) = 0 THEN [threw |-> "NotSupportedError", buffer |-> NoAudioBuffer]
        ELSE [threw |-> "none",
              buffer |-> [numberOfChannels |-> 1,
                          length |-> Len(bytes) \div 2,
                          sampleRate |-> 24000,
                          channels |-> <<[i \in 1..(Len(bytes) \div 2) |-> int16(i)]>>]]

\* decodeAudio (audioService.ts:35-56).  `new Int16Array(bytes.buffer)` throws
\* a RangeError when the byte length is odd and reads each element in the byte
\* order of the platform, which is little-endian on every platform a browser
\* with Web Audio runs on; `ctx.createBuffer(1, 0, 24000)` throws a
\* NotSupportedError, a buffer having at least one frame.  An element divided
\* by 32768.0 is the sample whose numerator is the element.
decodeAudio(base64Data) ==
    LET bin == atob(base64Data)
        bytes == bin.binaryString
        int16(i) == Only({IF v >= 32768 THEN v - 65536 ELSE v :
                          v \in {bytes[2 * i - 1] + 256 * bytes[2 * i]}})
    IN  IF bin.threw # "none" THEN [threw |-> bin.threw, buffer |-> NoAudioBuffer]
        ELSE IF Len(bytes) % 2 # 0 THEN [threw |-> "RangeError", buffer |-> NoAudioBuffer]
        ELSE IF Len(bytes) = 0 THEN [threw |-> "NotSupportedError", buffer |-> NoAudioBuffer]
        ELSE [threw |-> "none",
              buffer |-> [numberOfChannels |-> 1,
                          length |-> Len(bytes) \div 2,
                          sampleRate |-> 24000,
                          channels |-> <<[i \in 1..(Len(bytes) \div 2) |-> int16(i)]>>]]

\* bufferToWav with the samples written channel after channel
bufferToWav_Planar(ab) ==
    LET numOfChan == ab.numberOfChannels
        length == ab.length * numOfChan * 2 + 44
        u16(v) == <<v % 256, (v \div 256) % 256>>
        u32(v) == <<v % 256, (v \div 256) % 256, (v \div 65536) % 256, (v \div 16777216) % 256>>
        upToData == u32(1179011410) \o u32(length - 8) \o u32(1163280727)
                    \o u32(544501094) \o u32(16) \o u16(1) \o u16(numOfChan)
                    \o u32(ab.sampleRate) \o u32(ab.sampleRate * 2 * numOfChan)
                    \o u16(numOfChan * 2) \o u16(16) \o u32(1635017060)
        header == upToData \o u32(length - Len(upToData) - 4)
        clamp(k) == IF k < 0 - 32768 THEN 0 - 32768 ELSE IF k > 32768 THEN 32768 ELSE k
        int(k) == IF k < 0 THEN k ELSE (k * 32767) \div 32768
        pcm(k) == u16((int(clamp(k)) + 65536) % 65536)
        written(w) == pcm(ab.channels[(w \div ab.length) + 1][(w % ab.length) + 1])
    IN  [j \in 1..length |->
            IF j <= 44 THEN header[j]
            ELSE written((j - 45) \div 2)[((j - 45) % 2) + 1]]

\* bufferToWav (audioService.ts:388-431): the bytes of the Blob.  setUint16,
\* setUint32 and setInt16 write little-endian at `pos` (`offset`); the header
\* ends at byte 44, where the samples begin.  A sample k / 32768 is clamped to
\* [-1, 1]; below zero it is multiplied by 32768, which gives k, otherwise by
\* 32767, which gives k * 32767 / 32768 exactly (the product is below 2^53),
\* and `| 0` drops the fraction.
bufferToWav(ab) ==
    LET numOfChan == ab.numberOfChannels
        length == ab.length * numOfChan * 2 + 44
        u16(v) == <<v % 256, (v \div 256) % 256>>
        u32(v) == <<v % 256, (v \div 256) % 256, (v \div 65536) % 256, (v \div 16777216) % 256>>
        upToData == u32(1179011410) \o u32(length - 8) \o u32(1163280727)
                    \o u32(544501094) \o u32(16) \o u16(1) \o u16(numOfChan)
                    \o u32(ab.sampleRate) \o u32(ab.sampleRate * 2 * numOfChan)
                    \o u16(numOfChan * 2) \o u16(16) \o u32(1635017060)
        header == upToData \o u32(length - Len(upToData) - 4)
        clamp(k) == IF k < 0 - 32768 THEN 0 - 32768 ELSE IF k > 32768 THEN 32768 ELSE k
        int(k) == IF k < 0 THEN k ELSE (k * 32767) \div 32768
        pcm(k) == u16((int(clamp(k)) + 65536) % 65536)
        written(w) == pcm(ab.channels[(w % numOfChan) + 1][(w \div numOfChan) + 1])
    IN  [j \in 1..length |->
            IF j <= 44 THEN header[j]
            ELSE written((j - 45) \div 2)[((j - 45) % 2) + 1]]

\* the payloads handed to decodeAudio
Payloads == UNION {[1..n -> {"A", "/", "=", "!", " "}] : n \in 0..MaxPayload}

ChannelCounts == {1, 2}
SampleRates == {24000, 44100}
Samples == {0 - 40000, 0 - 1, 0, 16384, 32768}

\* the buffers handed to bufferToWav
AudioBuffers ==
    {[numberOfChannels |-> c, length |-> l, sampleRate |-> r, channels |-> d] :
        <<c, l, r, d>> \in UNION {UNION {{<<c, l, r, d>> : r \in SampleRates, d \in [1..c -> [1..l -> Samples]]} :
                                         l \in 0..MaxFrames} : c \in ChannelCounts}}

InitCodec ==
    /\ AudioInit
    /\ TimingIdle
    /\ export = [pc |-> "idle"]
    /\ app = [pc |-> "idle"]
    /\ mixer = [pc |-> "idle"]
    /\ player = [pc |-> "idle"]
    /\ retry = [pc |-> "idle"]
    /\ \/ \E p \in Payloads : codec = [pc |-> "call", op |-> "decodeAudio", arg |-> p]
       \/ \E b \in AudioBuffers : codec = [pc |-> "call", op |-> "bufferToWav", arg |-> b]

DecodeAudio ==
    /\ codec.pc = "call"
    /\ codec.op = "decodeAudio"
    /\ codec' = [pc |-> "done", op |-> codec.op, arg |-> codec.arg,
                 result |-> decodeAudio(codec.arg)]
    /\ UNCHANGED <<audioVars, timingVars, otherVars, mixer, player, retry>>

BufferToWav ==
    /\ codec.pc = "call"
    /\ codec.op = "bufferToWav"
    /\ codec' = [pc |-> "done", op |-> codec.op, arg |-> codec.arg,
                 result |-> bufferToWav(codec.arg)]
    /\ UNCHANGED <<audioVars, timingVars, otherVars, mixer, player, retry>>

NextCodec == DecodeAudio \/ BufferToWav

SpecCodec == InitCodec /\ [][NextCodec]_vars

\* bufferToWav has returned
Encoded == codec.pc = "done" /\ codec.op = "bufferToWav"

\* decodeAudio has returned or thrown
Decoded == codec.pc = "done" /\ codec.op = "decodeAudio"

\* the little-endian unsigned number in the n bytes after the first `at` bytes
LittleEndian(bytes, at, n) ==
    IF n = 2 THEN bytes[at + 1] + 256 * bytes[at + 2]
    ELSE bytes[at + 1] + 256 * bytes[at + 2] + 65536 * bytes[at + 3] + 16777216 * bytes[at + 4]

\* the 16-bit PCM value of a sample k / 32768
Pcm16(k) ==
    IF k <= 0 - 32768 THEN 0 - 32768
    ELSE IF k < 0 THEN k
    ELSE IF k >= 32768 THEN 32767
    ELSE (k * 32767) \div 32768

\* C21: for a buffer of L frames and C channels bufferToWav emits exactly
\* 44 + L*C*2 bytes; the RIFF size is L*C*2 + 36, the data size L*C*2, the
\* format tag 1 (PCM), 16 bits per sample, block align 2*C and byte rate
\* sampleRate*2*C; the samples are interleaved frame by frame, the channels
\* of a frame in channel order.
C21_WavLayout ==
    Encoded =>
        LET ab == codec.arg
            out == codec.result
            L == ab.length
            C == ab.numberOfChannels
            signed(v) == IF v >= 32768 THEN v - 65536 ELSE v
        IN  /\ Len(out) = 44 + L * C * 2
            /\ \A j \in 1..Len(out) : out[j] \in 0..255
            /\ LittleEndian(out, 4, 4) = L * C * 2 + 36
            /\ LittleEndian(out, 40, 4) = L * C * 2
            /\ LittleEndian(out, 20, 2) = 1
            /\ LittleEndian(out, 22, 2) = C
            /\ LittleEndian(out, 24, 4) = ab.sampleRate
            /\ LittleEndian(out, 28, 4) = ab.sampleRate * 2 * C
            /\ LittleEndian(out, 32, 2) = 2 * C
            /\ LittleEndian(out, 34, 2) = 16
            /\ \A i \in 1..L : \A ch \in 1..C :
                 signed(LittleEndian(out, 44 + 2 * ((i - 1) * C + (ch - 1)), 2))
                    = Pcm16(ab.channels[ch][i])

\* a stereo buffer of two frames whose samples all differ between the two
\* orders of writing has been encoded
C21_Witness ==
    /\ Encoded
    /\ codec.arg.numberOfChannels = 2
    /\ codec.arg.length = 2
    /\ codec.arg.channels = <<<<0 - 1, 16384>>, <<32768, 0 - 40000>>>>
    /\ Len(codec.result) = 52

\* C22: decodeAudio fails with an error when the payload is empty or is
\* malformed, an odd number of decoded bytes included; for a well-formed
\* payload that decodes to 2n bytes, n >= 1, it returns a buffer of one
\* channel, 24000 Hz and n frames whose i-th sample is the little-endian
\* signed 16-bit integer in bytes 2i and 2i+1 (counted from 0) over 32768.
C22_DecodeAudio ==
    Decoded =>
        LET bin == atob(codec.arg)
            bytes == bin.binaryString
            r == codec.result
            signed(v) == IF v >= 32768 THEN v - 65536 ELSE v
        IN  /\ codec.arg = <<>> \/ bin.threw # "none" \/ Len(bytes) % 2 = 1
                => r.threw # "none"
            /\ bin.threw = "none" /\ Len(bytes) % 2 = 0 /\ Len(bytes) >= 2
                => /\ r.threw = "none"
                   /\ r.buffer.numberOfChannels = 1
                   /\ r.buffer.sampleRate = 24000
                   /\ r.buffer.length = Len(bytes) \div 2
                   /\ Len(r.buffer.channels) = 1
                   /\ Len(r.buffer.channels[1]) = Len(bytes) \div 2
                   /\ \A i \in 0..((Len(bytes) \div 2) - 1) :
                        r.buffer.channels[1][i + 1]
                            = signed(LittleEndian(bytes, 2 * i, 2))

\* the payload "/A/A//", the bytes FC 0F C0 FF, has been decoded to the two
\* samples 4092 / 32768 and -64 / 32768
C22_Witness ==
    /\ Decoded
    /\ codec.arg = <<"/", "A", "/", "A", "/", "/">>
    /\ codec.result.threw = "none"
    /\ codec.result.buffer.channels = <<<<4092, 0 - 64>>>>

\* payloads that are refused: the empty one, one with a character outside
\* the alphabet, one of three decoded bytes
C22_Refused ==
    Decoded /\ codec.arg \in {<<>>, <<"A", "!", "A", "A">>, <<"A", "A", "A", "A">>}
        => codec.result.threw # "none"

----------------------------------------------------------------------------
\* The preview and the export of the background (part_003:432-469,
\* part_004:213-242, 285-297).  part_003:292-596 is a third version of the
\* App component, without the switch enableMusic and without a custom music
\* buffer.  mixer holds the settings of the page: the analysis (mood,
\* suggestedTempo), the sliders voiceVol and musicVol, backgroundMode,
\* enableMusic and customMusicBuffer; the voice buffer is "b1", the reel lasts
\* 5 seconds, the voice speed is 1.0 and the start offset 0.

\* AnalysisResult.suggestedTempo, "0.8 to 1.2" (types.ts:31), in tenths
SuggestedTempos == {8, 10, 12}

SliderVolumes == {0, 2000, 10000}

InitMix ==
    /\ AudioInit
    /\ TimingIdle
    /\ export = [pc |-> "idle"]
    /\ app = [pc |-> "idle"]
    /\ codec = [pc |-> "idle"]
    /\ player = [pc |-> "idle"]
    /\ retry = [pc |-> "idle"]
    /\ \E v \in {"part_003", "part_004"}, mood \in AnalysisMoods, t \in SuggestedTempos,
          vv \in SliderVolumes \ {2000}, mv \in SliderVolumes \ {10000},
          mode \in {"Auto", "Custom"}, music \in BOOLEAN, custom \in {"null", "bg"} :
         /\ v = "part_003" => music /\ custom = "null"
         /\ mixer = [version |-> v,
                     mood |-> mood,
                     suggestedTempo |-> t,
                     voiceVol |-> vv,
                     musicVol |-> mv,
                     backgroundMode |-> mode,
                     enableMusic |-> music,
                     customMusicBuffer |-> custom,
                     isPlaying |-> FALSE,
                     isRenderingVideo |-> FALSE,
                     pc |-> "ready",
                     args |-> <<>>,
                     mix |-> <<>>]

MixStep(mx) ==
    /\ mixer' = mx
    /\ UNCHANGED <<timingVars, otherVars, codec, player, retry>>

\* getActiveMood (part_003:432-436, part_004:213-218); the analysis is there
getActiveMood(mx) ==
    IF mx.version = "part_004" /\ ~mx.enableMusic THEN "null"
    ELSE IF mx.backgroundMode = "Custom" THEN "Custom"
    ELSE mx.mood

\* togglePlay, the background it starts (part_003:445-448, part_004:228-237)
PreviewBed(st, mx) ==
    Only({ (IF mx.version = "part_003"
            THEN IF mood # "Custom"
                 THEN playAtmosphere(st, mood, 5, mx.musicVol, mx.suggestedTempo)
                 ELSE st
            ELSE IF mood = "null" THEN st
            ELSE IF mood = "Custom"
                 THEN IF mx.customMusicBuffer # "null"
                      THEN playCustomBackground(st, mx.customMusicBuffer, mx.musicVol)
                      ELSE st
            ELSE playAtmosphere(st, mood, 5, mx.musicVol, mx.suggestedTempo))
           : mood \in {getActiveMood(mx)} })

\* togglePlay (part_003:438-452, part_004:220-242)
togglePlay ==
    /\ ~mixer.isRenderingVideo
    /\ IF mixer.isPlaying
       THEN /\ CanStop
            /\ Assign(stopAll(Cur), "stopAll")
            /\ MixStep([mixer EXCEPT !.isPlaying = FALSE])
       ELSE /\ HasBedRoom
            /\ \E s \in {playVoice(setVoiceSpeed(PreviewBed(Cur, mixer), 10),
                                   "b1", mixer.voiceVol,
                                   IF mixer.version = "part_003" THEN "cb1" ELSE "cb2", 0)} :
                 Assign(IF mixer.version = "part_003" THEN s
                        ELSE setVolumes(s, mixer.voiceVol,
                                        IF mixer.enableMusic THEN mixer.musicVol ELSE 0),
                        "playVoice")
            /\ MixStep([mixer EXCEPT !.isPlaying = TRUE])

\* handleDownloadVideo up to the await of getMixBuffer (part_003:454-460,
\* part_004:285-297); the images are there.  args holds mood, voiceVol,
\* musicVol, tempo and customMusicBuffer as passed to getMixBuffer.
handleDownloadVideo ==
    /\ ~mixer.isRenderingVideo
    /\ IF mixer.version = "part_003"
       THEN /\ \E a \in {<<getActiveMood(mixer), mixer.voiceVol, mixer.musicVol, 10, "null">>} :
                 MixStep([mixer EXCEPT
                            !.isRenderingVideo = TRUE,
                            !.args = a,
                            !.mix = getMixBuffer("b1", a[1], 5, a[2], a[3], a[4], a[5], 10)])
            /\ UNCHANGED audioVars
       ELSE /\ CanStop
            /\ Assign(stopAll(Cur), "stopAll")
            /\ \E a \in {<<IF getActiveMood(mixer) = "null" THEN "Neutral"
                             ELSE getActiveMood(mixer),
                            mixer.voiceVol,
                            IF mixer.enableMusic THEN mixer.musicVol ELSE 0,
                            mixer.suggestedTempo, mixer.customMusicBuffer>>} :
                 MixStep([mixer EXCEPT
                            !.isRenderingVideo = TRUE,
                            !.args = a,
                            !.mix = getMixBuffer("b1", a[1], 5, a[2], a[3], a[4], a[5], 10)])

\* the export settled: finally { setIsRenderingVideo(false) } (part_003:466-468);
\* mix keeps the graph the export was rendered from
ExportSettled ==
    /\ mixer.isRenderingVideo
    /\ MixStep([mixer EXCEPT !.isRenderingVideo = FALSE])
    /\ UNCHANGED audioVars

NextMix ==
    \/ togglePlay
    \/ handleDownloadVideo
    \/ ExportSettled
    \/ TimerFires

SpecMix == InitMix /\ [][NextMix]_vars

----------------------------------------------------------------------------
\* Claims about the offline mix

\* getMixBuffer has built a graph
Mixed == mixer.pc = "ready" /\ mixer.mix # <<>>

\* the positions a signal passes from node i of the graph g on its way out,
\* i included
RECURSIVE Route(_, _)
Route(g, i) == IF i = Dest \/ i = Null THEN <<>> ELSE <<i>> \o Route(g, g[i].out)

\* C23: in the graph getMixBuffer builds, every path from a sound source to
\* the output passes through exactly one gain stage that is set to voiceVol
\* (the voice) or to musicVol (the background: the custom buffer, the tone
\* oscillators and the oscillators that modulate them); so with voiceVol = 0
\* the background is what it is at any other voiceVol and the voice passes a
\* gain of 0, and with both at 0 every source passes a gain of 0; this for
\* every mood tag and for a custom buffer.
C23_OneVolumeStage ==
    Mixed =>
        LET g == mixer.mix
            voiceVol == mixer.args[2]
            musicVol == mixer.args[3]
            sources == {i \in DOMAIN g : g[i].kind \in {"source", "osc"}}
            stages(i) == {k \in Range(Route(g, i)) : g[k].role \in {"voiceGain", "bgGain"}}
        IN  /\ \A i \in sources :
                 /\ g[i].started
                 /\ g[Route(g, i)[Len(Route(g, i))]].out = Dest
                 /\ Cardinality(stages(i)) = 1
                 /\ \A k \in stages(i) :
                      /\ g[k].role = "voiceGain" <=> g[i].role = "voiceSrc"
                      /\ g[k].gain = IF g[i].role = "voiceSrc" THEN voiceVol ELSE musicVol
            /\ \E i \in sources : g[i].role = "voiceSrc"
            /\ mixer.args[1] = "Custom" /\ mixer.args[5] # "null"
                 => \E i \in sources : g[i].role = "customSrc" /\ g[i].buffer = mixer.args[5]
            /\ mixer.args[1] # "Custom"
                 => Tones(g, [i \in DOMAIN g |-> i])
                        = ProfileTones(getFrequenciesAndType(mixer.args[1]))
            /\ SubSeq(g, 3, Len(g))
                 = SubSeq(getMixBuffer("b1", mixer.args[1], 5, 10000 - voiceVol, musicVol,
                                       mixer.args[4], mixer.args[5], 10), 3, Len(g))
            /\ voiceVol = 0 /\ musicVol = 0
                 => \A i \in sources : \E k \in Range(Route(g, i)) : g[k].gain = 0

\* a mix of the voice with the synthesised background of "Tense" has been
\* built with both volumes at 0
C23_Witness ==
    /\ Mixed
    /\ mixer.args[1] = "Tense"
    /\ mixer.args[2] = 0
    /\ mixer.args[3] = 0
    /\ Len(mixer.mix) > 6

\* the same with a custom buffer as background
C23_WitnessCustom ==
    /\ Mixed
    /\ mixer.args[1] = "Custom"
    /\ mixer.args[5] = "bg"
    /\ mixer.args[2] = 0
    /\ Len(mixer.mix) = 4

\* the nodes of the bed that plays, in the order playAtmosphere created them
LiveBed ==
    LET b == (musicGainNode \div Block) * Block
        ids == SelectSeq([i \in 1..Block |-> b + i], LAMBDA n : n \in DOMAIN nodes)
    IN  [i \in DOMAIN ids |-> nodes[ids[i]]]

\* what a graph g (a sequence of nodes) is built from: the tone oscillators
\* (frequency, waveform), the LFO's frequency and depth, the detune LFOs'
\* frequencies and depths, the gains of the partials and the volume of the
\* background
Recipe(g) ==
    LET of(roles) == SelectSeq(g, LAMBDA n : n.role \in roles)
        freqs(roles) == [i \in DOMAIN of(roles) |-> of(roles)[i].freq]
        gains(roles) == [i \in DOMAIN of(roles) |-> of(roles)[i].gain]
    IN  [tones |-> [i \in DOMAIN of({"osc"}) |-> <<of({"osc"})[i].freq, of({"osc"})[i].wave>>],
         lfo |-> freqs({"lfo"}),
         lfoDepth |-> gains({"lfoGain", "lfoAmp"}),
         detune |-> freqs({"detuneLFO", "oscDetuneLFO"}),
         detuneDepth |-> gains({"detuneGain", "detuneAmp"}),
         partialGain |-> gains({"oscGain", "oscVol"}),
         volume |-> gains({"musicGain", "bgGain"})]

\* a synthesised bed is playing in the preview, untouched by stopAll, and an
\* export of the same settings has built its graph
PreviewAndExport ==
    /\ mixer.pc = "ready"
    /\ mixer.isPlaying
    /\ musicGainNode # Null
    /\ musicNodes # <<>>
    /\ timers = 0
    /\ mixer.mix # <<>>

\* C24 (as claimed): the bed of the preview and the graph of the export are
\* built from the same recipe: the same partials with the same frequencies
\* and waveform, the same LFO frequency (lfoFreq * tempo) and depth, the same
\* detune-LFO frequencies (0.2 * (i + 1) * tempo) and depth (2 * detune), the
\* same gain per partial (0.15 / number of partials); and the export is
\* invoked with the mood, the tempo and the volumes of the preview.
C24_ExportMatchesPreview ==
    PreviewAndExport => Recipe(LiveBed) = Recipe(mixer.mix)

\* the two graphs are built alike when playAtmosphere and getMixBuffer are
\* given the same mood, tempo and volume
C24_SameRecipe ==
    PreviewAndExport /\ mixer.args[4] = mixer.suggestedTempo
        => Recipe(LiveBed) = Recipe(mixer.mix)

\* the preview and the export of part_003 at a suggested tempo of 1.2 and the
\* mood "Tense"
C24_Diverged ==
    /\ PreviewAndExport
    /\ mixer.version = "part_003"
    /\ mixer.suggestedTempo = 12
    /\ mixer.mood = "Tense"
    /\ Recipe(LiveBed).lfo # Recipe(mixer.mix).lfo
    /\ Recipe(LiveBed).tones = Recipe(mixer.mix).tones

----------------------------------------------------------------------------
\* The ReelPlayer component (part_003:19-156) inside the App of part_004
\* (lines 205-211, 244-260, 488-492).  player holds the props the App passes
\* (isPlaying, seekTime = startOffset, wordTimings), the component's state
\* (elapsedTime, progress, currentImageIndex, isEditing), its ref
\* lastSeekTimeRef and the variable accumulatedTime of the animation loop
\* that runs.  The calls of togglePlay, handleSeek and handleReelFinish into
\* the AudioService act on the service only and are those of the sections
\* above.
\*
\* Times are binary64 numbers of seconds.  The clock, the slider and the
\* durations take values that are multiples of 1/4 s, which binary64 holds
\* and adds exactly; they are written in hundredths of a second.  The start
\* and the end of a word are written [n, d]: the binary64 value nearest to
\* n / 100, or the next value below (d = -1) or above (d = 1) it.

MaxEdits == 2

T(n) == [n |-> n, d |-> 0]

\* a <= b and a < b
Leq(a, b) == a.n < b.n \/ (a.n = b.n /\ a.d <= b.d)

Less(a, b) == a.n < b.n \/ (a.n = b.n /\ a.d < b.d)

\* parseFloat((x + delta).toFixed(2)) for delta = 0.1 or -0.1 (10 or -10
\* hundredths): x + delta lies within 10^-15 of (n + delta) / 100, and the
\* nearest number of two decimals is read back
toFixed2(x, delta) == T(x.n + delta)

\* x + 0.1 in binary64 for x = T(n), 0 <= n < 100: the sum is the value
\* nearest to (n + 10) / 100 except for the n listed, where rounding leaves
\* it one value above or below
Plus01(x) ==
    [n |-> x.n + 10,
     d |-> IF x.n \in {2, 5, 11, 14, 19, 20, 31, 32, 33, 34} THEN 1
           ELSE IF x.n \in {24, 35, 36, 57, 58, 69, 70, 71, 82, 83} THEN 0 - 1
           ELSE 0]

\* Math.max(0, x - 0.1) in binary64 for x = T(n), n < 100
Max0Minus01(x) ==
    IF x.n <= 10 THEN T(0)
    ELSE [n |-> x.n - 10,
          d |-> IF x.n \in {14, 28, 34, 39, 40, 51, 52, 53, 54, 55, 56, 67, 68,
                            79, 80, 81, 92, 93} THEN 1
                ELSE IF x.n \in {11, 12, 15, 18, 21, 24, 29, 30, 35, 41, 42, 43, 44}
                THEN 0 - 1
                ELSE 0]

\* adjustTiming (part_003:138-152): the newTiming handed to onWordUpdate
adjustTiming(word, field, delta) ==
    IF field = "start"
    THEN Only({ [word EXCEPT !.start = s,
                             !.end = IF Leq(word.end, s) THEN Plus01(s) ELSE @]
                : s \in {IF word.start.n + delta < 0 THEN T(0)
                         ELSE toFixed2(word.start, delta)} })
    ELSE Only({ [word EXCEPT !.end = e,
                             !.start = IF Leq(e, word.start) THEN Max0Minus01(e) ELSE @]
                : e \in {toFixed2(word.end, delta)} })

\* handleWordUpdate (part_004:205-211)
handleWordUpdate(prev, index, newTiming) == [prev EXCEPT ![index + 1] = newTiming]

\* activeChunk (part_003:154-156): its position in captionChunks, 0 for null
\* or undefined
activeChunk(p) ==
    LET captionChunks == getCaptionChunks(p.wordTimings, p.aspectRatio)
        found == {k \in DOMAIN captionChunks :
                    /\ Leq(captionChunks[k].startTime, T(p.elapsedTime))
                    /\ Less(T(p.elapsedTime), captionChunks[k].endTime)}
    IN  IF found # {} THEN CHOOSE k \in found : \A j \in found : k <= j
        ELSE IF p.elapsedTime >= p.audioDuration \/ captionChunks = <<>> THEN 0
        ELSE 1

\* the word timings of a reel: <<start, end>> of each word in hundredths
Reels == {<<<<0, 5>>, <<5, 30>>>>, <<<<14, 24>>, <<24, 34>>>>}

\* clock differences between two animation frames, and the positions the
\* slider is moved to (in percent)
FrameDeltas == {25, 50}
SliderValues == {0, 50}

InitPlayer ==
    /\ AudioInit
    /\ TimingIdle
    /\ export = [pc |-> "idle"]
    /\ app = [pc |-> "idle"]
    /\ mixer = [pc |-> "idle"]
    /\ codec = [pc |-> "idle"]
    /\ retry = [pc |-> "idle"]
    /\ \E reel \in Reels :
         player = [pc |-> "mounted",
                   isPlaying |-> FALSE,
                   seekTime |-> 0,
                   totalDuration |-> 200,
                   audioDuration |-> 150,
                   images |-> 2,
                   aspectRatio |-> "9:16",
                   wordTimings |-> [i \in 1..Len(reel) |->
                                      [word |-> <<"a">>, start |-> T(reel[i][1]),
                                       end |-> T(reel[i][2]), index |-> i - 1]],
                   elapsedTime |-> 0,
                   progress |-> 0,
                   currentImageIndex |-> 0,
                   isEditing |-> FALSE,
                   lastSeekTimeRef |-> 0,
                   accumulatedTime |-> 0,
                   edits |-> 0,
                   event |-> "mount"]

PlayerStep(p) ==
    /\ player' = p
    /\ UNCHANGED <<audioVars, timingVars, otherVars, mixer, codec, retry>>

\* the effect of lines 50-58, run after a render
SeekEffect(p) ==
    IF p.seekTime # p.lastSeekTimeRef
    THEN [p EXCEPT !.elapsedTime = p.seekTime,
                   !.progress = (p.seekTime * 1000) \div p.totalDuration,
                   !.lastSeekTimeRef = p.seekTime]
    ELSE p

\* togglePlay (part_004:220-242) sets isPlaying; the effect of lines 60-106
\* starts a loop whose accumulatedTime is the elapsedTime of this render, or
\* cancels the loop that runs
SetIsPlaying ==
    /\ player.pc = "mounted"
    /\ PlayerStep(IF player.isPlaying
                  THEN [player EXCEPT !.isPlaying = FALSE, !.event = "pause"]
                  ELSE [player EXCEPT !.isPlaying = TRUE,
                                      !.accumulatedTime = player.elapsedTime,
                                      !.event = "play"])

\* animate (lines 65-92) for a clock difference of delta; on the last frame
\* onFinish is handleReelFinish (part_004:256-260), which sets isPlaying to
\* false and startOffset to 0, and the effects run
Animate ==
    /\ player.isPlaying
    /\ \E delta \in FrameDeltas :
         \E acc \in {player.accumulatedTime + delta} :
           PlayerStep(IF acc >= player.totalDuration
                      THEN SeekEffect([player EXCEPT
                                         !.accumulatedTime = acc,
                                         !.elapsedTime = player.totalDuration,
                                         !.progress = 1000,
                                         !.isPlaying = FALSE,
                                         !.seekTime = 0,
                                         !.event = "finish"])
                      ELSE [player EXCEPT
                              !.accumulatedTime = acc,
                              !.elapsedTime = acc,
                              !.progress = (acc * 1000) \div player.totalDuration,
                              !.currentImageIndex =
                                  IF acc \div (player.totalDuration \div player.images)
                                         < player.images - 1
                                  THEN acc \div (player.totalDuration \div player.images)
                                  ELSE player.images - 1,
                              !.event = "frame"])

\* handleManualSeek (lines 108-115) with onSeek = handleSeek
\* (part_004:244-249): startOffset becomes the new time
HandleManualSeek ==
    \E val \in SliderValues :
        \E newTime \in {(val * player.totalDuration) \div 100} :
            PlayerStep(SeekEffect([player EXCEPT
                                     !.elapsedTime = newTime,
                                     !.progress = val * 10,
                                     !.lastSeekTimeRef = newTime,
                                     !.seekTime = newTime,
                                     !.event = "seek"]))

\* setIsEditing(!isEditing) (line 213)
SetIsEditing ==
    /\ player.pc = "mounted"
    /\ PlayerStep([player EXCEPT !.isEditing = ~player.isEditing, !.event = "editing"])

\* a click on one of the four buttons of a word of the active chunk
\* (lines 260-277): adjustTiming and, through onWordUpdate, handleWordUpdate
AdjustTiming ==
    /\ player.isEditing
    /\ player.edits < MaxEdits
    /\ activeChunk(player) # 0
    /\ \E w \in Range(getCaptionChunks(player.wordTimings,
                                       player.aspectRatio)[activeChunk(player)].words),
          field \in {"start", "end"}, delta \in {10, 0 - 10} :
         /\ w.index + 1 \in DOMAIN player.wordTimings
         /\ PlayerStep([player EXCEPT
                          !.wordTimings =
                              handleWordUpdate(@, w.index,
                                  adjustTiming(player.wordTimings[w.index + 1], field, delta)),
                          !.edits = @ + 1,
                          !.event = "edit"])

NextPlayer ==
    \/ SetIsPlaying
    \/ Animate
    \/ HandleManualSeek
    \/ SetIsEditing
    \/ AdjustTiming

SpecPlayer == InitPlayer /\ [][NextPlayer]_vars

----------------------------------------------------------------------------
\* Claims about the ReelPlayer

\* C25 (as claimed): after any sequence of edits of a start or an end by 0.1
\* or -0.1, every WordTiming satisfies 0 <= start <= end, and the list has
\* the length and the indices it had.
C25_TimingsStayOrdered ==
    player.pc = "mounted" =>
        /\ Len(player.wordTimings) = 2
        /\ \A i \in DOMAIN player.wordTimings :
             /\ player.wordTimings[i].index = i - 1
             /\ Leq(T(0), player.wordTimings[i].start)
             /\ Leq(player.wordTimings[i].start, player.wordTimings[i].end)

\* an edit changes the start or the end of one word, and nothing else of the
\* list
C25_OnlyEditedWord ==
    [][player.pc = "mounted" /\ player'.wordTimings # player.wordTimings
         => /\ DOMAIN player'.wordTimings = DOMAIN player.wordTimings
            /\ Cardinality({i \in DOMAIN player.wordTimings :
                              player'.wordTimings[i] # player.wordTimings[i]}) = 1
            /\ \A i \in DOMAIN player.wordTimings :
                 /\ player'.wordTimings[i].word = player.wordTimings[i].word
                 /\ player'.wordTimings[i].index = player.wordTimings[i].index]_vars

\* an end was moved below zero, its start held at zero
C25_NegativeEnd ==
    /\ player.pc = "mounted"
    /\ player.wordTimings[1].start = T(0)
    /\ player.wordTimings[1].end = T(0 - 5)

\* as long as no end is moved to zero or below, the order is kept
C25_OrderedWhilePositive ==
    [][(player.pc = "mounted" /\ C25_TimingsStayOrdered
          /\ \A i \in DOMAIN player'.wordTimings : player'.wordTimings[i].end.n >= 0)
         => C25_TimingsStayOrdered']_vars

\* C28 (as claimed): after a seek to t while the reel plays, the elapsed time
\* that captions, progress and image selection use continues from t on the
\* frame that follows: it is t plus the time the frame took (or the total
\* duration, when that is reached), not the time accumulated before the seek.
C28_SeekKeepsPosition ==
    [][(player.pc = "mounted" /\ player.isPlaying /\ player.event = "seek"
          /\ player'.event \in {"frame", "finish"})
         => \E delta \in FrameDeltas :
              /\ player'.elapsedTime =
                    (IF player.elapsedTime + delta >= player.totalDuration
                     THEN (IF player'.event = "finish" THEN player'.seekTime
                           ELSE player.totalDuration)
                     ELSE player.elapsedTime + delta)
              /\ player'.progress = (player'.elapsedTime * 1000) \div player.totalDuration]_vars

\* a frame drawn after a seek to 1.0 s shows an elapsed time below 1.0 s
C28_SnappedBack ==
    /\ player.pc = "mounted"
    /\ player.isPlaying
    /\ player.event = "frame"
    /\ player.lastSeekTimeRef = 100
    /\ player.seekTime = 100
    /\ player.elapsedTime < 100

\* without a seek since the loop started, a frame continues from the elapsed
\* time shown
C28_FramesContinue ==
    [][(player.pc = "mounted" /\ player.isPlaying /\ player.event \in {"play", "frame"}
          /\ player'.event = "frame")
         => \E delta \in FrameDeltas : player'.elapsedTime = player.elapsedTime + delta]_vars

----------------------------------------------------------------------------
\* Claims about stopAll's timer and about seek (specification Spec)

\* C26 (as claimed): the teardown that stopAll delays affects only the bed
\* that was active when stopAll was called: a bed started after stopAll,
\* while the timer is pending, is still active when the timer has fired.
C26_TeardownSparesNewBed ==
    [][(/\ timers > 0
        /\ lastCall \in {"playAtmosphere", "playCustomBackground"}
        /\ BedPlaying
        /\ timers' = timers - 1)
         => /\ BedPlaying'
            /\ ActiveBeds(nodes') = ActiveBeds(nodes)
            /\ musicGainNode' = musicGainNode]_vars

\* a bed started while a timer of stopAll is pending
C26_BedDuringGrace ==
    /\ timers > 0
    /\ lastCall = "playAtmosphere"
    /\ BedPlaying
    /\ musicGainNode # Null

\* the timer fired after such a bed was started and nothing plays
C26_NewBedTornDown ==
    /\ timers = 0
    /\ lastCall = "playAtmosphere"
    /\ ~BedPlaying
    /\ musicNodes = <<>>
    /\ musicGainNode = Null

\* C27 (as claimed): seek starts a voice node only while a voice is playing:
\* before any playVoice, after stopAll and after the voice ended by itself,
\* seek creates no node and starts no voice.
C27_SeekOnlyWhilePlaying ==
    ~VoicePlaying =>
        \A t \in Offsets, p \in Platforms :
            LET r == seek(On(p), t)
            IN  /\ r.voiceNode = voiceNode
                /\ ActiveVoices(r.nodes) = {}
                /\ DOMAIN r.nodes = DOMAIN nodes

\* before any playVoice seek does nothing
C27_NoOpBeforePlayVoice ==
    activeVoiceBuffer = "null" =>
        \A t \in Offsets, p \in Platforms : seek(On(p), t) = On(p)

\* stopAll was the last call, no voice plays, and seek would start one
C27_SeekAfterStopAll ==
    /\ lastCall = "stopAll"
    /\ ~VoicePlaying
    /\ voiceNode = Null
    /\ ActiveVoices(seek(On("standard"), 1).nodes) # {}

----------------------------------------------------------------------------
\* A further claim about calculateWordTimings (specification SpecTimings)

\* the script is empty or holds nothing but white space
Blank(c) == \A i \in DOMAIN c : IsSpace(c[i])

\* C29 (as claimed): calculateWordTimings returns the empty list when the
\* script is empty or only white space, or when the duration is <= 0;
\* otherwise it returns one timing per token of the script (the maximal runs
\* of characters that are not white space), and every word is non-empty.
C29_OneTimingPerToken ==
    phase = "done" =>
        IF Blank(caption) \/ NotPositive(audioDuration)
        THEN timings = <<>>
        ELSE /\ Len(timings) = Cardinality(WordStarts(caption))
             /\ \A i \in DOMAIN timings : timings[i].word # <<>>

\* the same for the scripts that are not white space only
C29_ExceptWhiteSpaceOnly ==
    (phase = "done" /\ (caption = <<>> \/ ~Blank(caption))) => C29_OneTimingPerToken

\* the script " " over 1.0 s was timed: one word, the empty string, from 0 to 1.0
C29_EmptyWord ==
    /\ phase = "done"
    /\ caption = <<" ">>
    /\ audioDuration = FromInt(1)
    /\ Len(timings) = 1
    /\ timings[1].word = <<>>
    /\ timings[1].start = Zero
    /\ timings[1].end = FromInt(1)

----------------------------------------------------------------------------
\* withRetry (geminiService.ts:8-39).  retry holds maxRetries, whether
\* window.aistudio exists, the loop variables i and delay, and what happened:
\* attempts has one entry per invocation of fn, with its result and with the
\* delay that was waited for immediately before it (0 for none).  A result is
\* "ok" or the kind of the error fn rejected with: "quota" (status or message
\* with RESOURCE_EXHAUSTED or 429), "notFound" (message with "Requested
\* entity was not found."), "notFoundQuota" (both) or "other".  An error
\* thrown is written <<k, kind>>, the error of the k-th invocation; k = 0 for
\* an error that is not fn's.

MaxRetries == 3

Results == {"ok", "quota", "notFound", "notFoundQuota", "other"}

\* isQuotaError (lines 22-26) and the test of line 15
IsQuotaError(result) == result \in {"quota", "notFoundQuota"}

IsNotFound(result) == result \in {"notFound", "notFoundQuota"}

InitRetry ==
    /\ AudioInit
    /\ TimingIdle
    /\ export = [pc |-> "idle"]
    /\ app = [pc |-> "idle"]
    /\ mixer = [pc |-> "idle"]
    /\ codec = [pc |-> "idle"]
    /\ player = [pc |-> "idle"]
    /\ \E n \in 0..MaxRetries, studio \in BOOLEAN :
         retry = [pc |-> "for",
                  maxRetries |-> n,
                  aistudio |-> studio,
                  i |-> 0,
                  delay |-> 2000,
                  waited |-> 0,
                  attempts |-> <<>>,
                  outcome |-> "pending",
                  thrown |-> <<>>]

RetryStep(r) ==
    /\ retry' = r
    /\ UNCHANGED <<audioVars, timingVars, otherVars, mixer, codec, player>>

\* the test of the for loop (line 10) and the throw after it (line 38)
LoopTest ==
    /\ retry.pc = "for"
    /\ RetryStep(IF retry.i < retry.maxRetries
                 THEN [retry EXCEPT !.pc = "fn"]
                 ELSE [retry EXCEPT !.pc = "done", !.outcome = "threw",
                                    !.thrown = <<0, "Maximum retries reached">>])

\* `return await fn()` of line 12 settled, and the catch block up to its
\* next await (lines 13-33)
FnSettled(r, result) ==
    Only({ (IF result = "ok"
            THEN [a EXCEPT !.pc = "done", !.outcome = "returned"]
            ELSE IF IsNotFound(result) /\ a.aistudio
            THEN [a EXCEPT !.pc = "openSelectKey"]
            ELSE IF IsQuotaError(result) /\ a.i < a.maxRetries - 1
            THEN [a EXCEPT !.pc = "setTimeout"]
            ELSE [a EXCEPT !.pc = "done", !.outcome = "threw",
                           !.thrown = <<Len(a.attempts), result>>])
           : a \in {[r EXCEPT !.attempts = Append(@, [result |-> result, after |-> r.waited]),
                              !.waited = 0]} })

Fn ==
    /\ retry.pc = "fn"
    /\ \E result \in Results : RetryStep(FnSettled(retry, result))

\* `await aistudio.openSelectKey()` settled (line 17); a rejection leaves
\* withRetry from inside the catch block
OpenSelectKey ==
    /\ retry.pc = "openSelectKey"
    /\ \E resolved \in BOOLEAN :
         RetryStep(IF resolved THEN [retry EXCEPT !.pc = "fn again"]
                   ELSE [retry EXCEPT !.pc = "done", !.outcome = "threw",
                                      !.thrown = <<0, "openSelectKey">>])

\* `return await fn()` of line 18 settled: it is not inside the try block
FnAgain ==
    /\ retry.pc = "fn again"
    /\ \E result \in Results :
         \E a \in {[retry EXCEPT !.attempts = Append(@, [result |-> result, after |-> 0])]} :
           RetryStep(IF result = "ok"
                     THEN [a EXCEPT !.pc = "done", !.outcome = "returned"]
                     ELSE [a EXCEPT !.pc = "done", !.outcome = "threw",
                                    !.thrown = <<Len(a.attempts), result>>])

\* the timer of line 30 fired; delay *= 2; continue (and i++)
DelayElapsed ==
    /\ retry.pc = "setTimeout"
    /\ RetryStep([retry EXCEPT !.pc = "for",
                               !.waited = retry.delay,
                               !.delay = retry.delay * 2,
                               !.i = retry.i + 1])

NextRetry ==
    \/ LoopTest
    \/ Fn
    \/ OpenSelectKey
    \/ FnAgain
    \/ DelayElapsed

SpecRetry == InitRetry /\ [][NextRetry]_vars

----------------------------------------------------------------------------
\* Claims about withRetry

\* C30 (as claimed): withRetry invokes fn at most maxRetries times; an
\* invocation after the first follows a quota error of the invocation before
\* it, which was not the last one allowed, and a delay of 2000 ms that
\* doubles with every retry; every other error, and a quota error of the
\* last invocation allowed, is rethrown as it is.
C30_RetryOnlyOnQuota ==
    retry.pc # "idle" =>
        LET a == retry.attempts
            n == Len(a)
        IN  /\ n <= retry.maxRetries
            /\ \A k \in 2..n :
                 /\ IsQuotaError(a[k - 1].result)
                 /\ k - 1 < retry.maxRetries
                 /\ a[k].after = 2000 * (2 ^ (k - 2))
            /\ (n > 0 /\ a[n].result # "ok"
                  /\ ~(IsQuotaError(a[n].result) /\ n < retry.maxRetries))
                 => (retry.outcome = "threw" /\ retry.thrown = <<n, a[n].result>>)
            /\ retry.outcome = "threw" /\ n > 0 => retry.thrown = <<n, a[n].result>>
            /\ retry.outcome = "returned" => n > 0 /\ a[n].result = "ok"

\* where window.aistudio does not exist, withRetry is as claimed
C30_OutsideAiStudio ==
    (retry.pc # "idle" /\ ~retry.aistudio) => C30_RetryOnlyOnQuota

\* with maxRetries = 2: a quota error, the delay of 2000 ms, then "Requested
\* entity was not found.", the key selection and a third invocation of fn
C30_ThirdInvocation ==
    /\ retry.pc = "done"
    /\ retry.maxRetries = 2
    /\ Len(retry.attempts) = 3
    /\ retry.attempts[1].result = "quota"
    /\ retry.attempts[2] = [result |-> "notFound", after |-> 2000]
    /\ retry.attempts[3].after = 0

============================================================================
